---- MODULE Spec2Model ----
(***************************************************************************)
(* MoodCanvas: mood analysis (mood_to_music.py), the Spotify catalog       *)
(* client (spotify_client.py) and the image / video prompt composers       *)
(* (image_generator.py, video_generator.py), modelled as state machines.   *)
(*                                                                         *)
(* Python str values are TLA+ strings; the str methods the code uses       *)
(* (strip, lower, startswith, endswith, slicing, "in", join) are operators *)
(* computed character by character.  Values whose Python type is not fixed *)
(* (JSON values, Optional[str] arguments) are tagged records               *)
(* [t, s, l]: t is the type, s the text of a str, l the items of a list.   *)
(***************************************************************************)
EXTENDS Integers, Sequences, FiniteSets, TLC

VARIABLES
  \* ---- analyze_mood (mood_to_music.py)
  mood_text,          \* the argument of analyze_mood
  openai_api_key,     \* the value of OPENAI_API_KEY in the environment
  analyze_pc,         \* the line analyze_mood is at
  getenv_calls,       \* how many times the credential was looked up
  completion_calls,   \* how many chat-completion requests were sent
  completion,         \* what the last completion request produced
  caught,             \* the exception caught at line 51, empty if none
  analyze_result,     \* what analyze_mood returned or raised
  \* ---- SpotifyClient (spotify_client.py)
  sp,                 \* self.sp: None or the spotipy session
  user_id,            \* self.user_id
  last_authenticate,  \* what the latest authenticate() returned, none if never called
  client_op,          \* the operation called last, with its arguments
  client_pc,          \* the line that operation is at, idle once it has ended
  search_queries,     \* search_tracks: the query batch
  query_index,        \* search_tracks: the query the loop is at
  all_tracks,         \* search_tracks: the merged pool
  playlist,           \* create_playlist: the record the catalog answered with
  requests,           \* the catalog requests the operation has sent, in order
  client_result,      \* what the operation returned or raised
  \* ---- prompt composers (image_generator.py, video_generator.py)
  prompt_args,        \* the arguments the composers are called with
  image_prompt,       \* what create_image_prompt returned, None before the call
  video_prompt,       \* what create_video_prompt returned, None before the call
  \* ---- generate_mood_image (image_generator.py)
  image_args,         \* the arguments of generate_mood_image
  image_api_key,      \* the value of OPENAI_API_KEY when it is looked up
  image_pc,           \* the line generate_mood_image is at
  image_calls,        \* the calls to the image endpoint and the download, in order
  image_url,          \* the url of the generated image, empty before
  image_result,       \* what generate_mood_image returned or raised
  \* ---- generate_mood_video (video_generator.py)
  video_args,         \* the arguments of generate_mood_video but duration
  video_duration,     \* its duration argument
  google_api_key,     \* the value of GOOGLE_AI_API_KEY in the environment
  genai,              \* the package the name genai is bound to
  video_pc,           \* the line generate_mood_video is at
  video_result,       \* what generate_mood_video returned or raised
  \* ---- the polling loops (video_generator.py)
  poll_fn,            \* which of the two polling functions runs
  poll_operation,     \* the operation (the response) being polled
  poll_pc,            \* where the loop is
  poll_elapsed,       \* time.time() - start_time, in seconds
  poll_checks,        \* how many times the status was looked at
  poll_refreshes,     \* how many times client.operations.get was called
  poll_download,      \* what the download of the video did
  poll_result,        \* what the polling function returned or raised
  \* ---- the query batch of search_tracks on its own (spotify_client.py)
  plan_args,          \* genres, search_keywords, energy_level and limit
  plan_pc,            \* the line the planning is at
  plan_queries,       \* search_queries
  plan_quotas,        \* tracks_needed, query by query
  \* ---- main and create_mood_canvas (app.py)
  submitted,          \* the form was submitted
  spotify_credentials,\* the three SPOTIPY_ variables are all set
  app_pc,             \* the line the request is at
  app_calls,          \* the functions the request has called, in order
  app_mood_data,      \* mood_data of the pipeline, and where it came from
  track_uris,         \* the uris of the tracks search_tracks returned
  playlist_result,    \* what create_playlist returned
  image_data          \* what generate_mood_image returned

analyzeVars == <<mood_text, openai_api_key, analyze_pc, getenv_calls,
                 completion_calls, completion, caught, analyze_result>>

clientVars == <<sp, user_id, last_authenticate, client_op, client_pc,
                search_queries, query_index, all_tracks, playlist, requests,
                client_result>>

promptVars == <<prompt_args, image_prompt, video_prompt>>

imageVars == <<image_args, image_api_key, image_pc, image_calls, image_url,
               image_result>>

videoVars == <<video_args, video_duration, google_api_key, genai, video_pc,
               video_result>>

pollVars == <<poll_fn, poll_operation, poll_pc, poll_elapsed, poll_checks,
              poll_refreshes, poll_download, poll_result>>

planVars == <<plan_args, plan_pc, plan_queries, plan_quotas>>

appVars == <<submitted, spotify_credentials, app_pc, app_calls,
             app_mood_data, track_uris, playlist_result, image_data>>

vars == <<analyzeVars, clientVars, promptVars, imageVars, videoVars, pollVars,
          planVars, appVars>>

\* what an action of one component leaves alone
outsideAnalyze ==
  <<clientVars, promptVars, imageVars, videoVars,
    pollVars, planVars, appVars>>
outsideClient ==
  <<analyzeVars, promptVars, imageVars, videoVars,
    pollVars, planVars, appVars>>
outsidePrompt ==
  <<analyzeVars, clientVars, imageVars, videoVars,
    pollVars, planVars, appVars>>
outsideImage ==
  <<analyzeVars, clientVars, promptVars, videoVars,
    pollVars, planVars, appVars>>
outsideVideo ==
  <<analyzeVars, clientVars, promptVars, imageVars,
    pollVars, planVars, appVars>>
outsidePoll ==
  <<analyzeVars, clientVars, promptVars, imageVars,
    videoVars, planVars, appVars>>
outsidePlan ==
  <<analyzeVars, clientVars, promptVars, imageVars,
    videoVars, pollVars, appVars>>
outsideApp ==
  <<analyzeVars, clientVars, promptVars, imageVars,
    videoVars, pollVars, planVars>>

\* the bounds of the model
MaxLimit == 2
MaxItems == 2
MaxQueries == 2
MaxRepeat == 60

-----------------------------------------------------------------------------
(* Python values *)

Null == [t |-> "null", s |-> "", l |-> <<>>]
Num == [t |-> "num", s |-> "", l |-> <<>>]
Str(text) == [t |-> "str", s |-> text, l |-> <<>>]
List(items) == [t |-> "list", s |-> "", l |-> items]

\* bool(v): None, "" and [] are falsy
Truthy(v) ==
  \/ v.t = "str" /\ v.s # ""
  \/ v.t = "list" /\ v.l # <<>>
  \/ v.t = "num"

\* the outcome of a call: a returned value or a raised exception
Returned(v) == [kind |-> "returned", exc |-> "", msg |-> "", value |-> v]
Raised(e, m) == [kind |-> "raised", exc |-> e, msg |-> m, value |-> <<>>]
NotCalled == [kind |-> "none", exc |-> "", msg |-> "", value |-> <<>>]

-----------------------------------------------------------------------------
(* Python str methods *)

Min(a, b) == IF a < b THEN a ELSE b
Max(a, b) == IF a > b THEN a ELSE b

Whitespace == {" ", "\t", "\n", "\r", "\f"}

RECURSIVE lstrip(_)
lstrip(s) ==
  IF Len(s) > 0 /\ SubSeq(s, 1, 1) \in Whitespace THEN lstrip(Tail(s)) ELSE s

RECURSIVE rstrip(_)
rstrip(s) ==
  IF Len(s) > 0 /\ SubSeq(s, Len(s), Len(s)) \in Whitespace
  THEN rstrip(SubSeq(s, 1, Len(s) - 1))
  ELSE s

\* s.strip()
strip(s) == rstrip(lstrip(s))

lower_char(c) ==
  CASE c = "A" -> "a" [] c = "B" -> "b" [] c = "C" -> "c" [] c = "D" -> "d"
    [] c = "E" -> "e" [] c = "F" -> "f" [] c = "G" -> "g" [] c = "H" -> "h"
    [] c = "I" -> "i" [] c = "J" -> "j" [] c = "K" -> "k" [] c = "L" -> "l"
    [] c = "M" -> "m" [] c = "N" -> "n" [] c = "O" -> "o" [] c = "P" -> "p"
    [] c = "Q" -> "q" [] c = "R" -> "r" [] c = "S" -> "s" [] c = "T" -> "t"
    [] c = "U" -> "u" [] c = "V" -> "v" [] c = "W" -> "w" [] c = "X" -> "x"
    [] c = "Y" -> "y" [] c = "Z" -> "z" [] OTHER -> c

\* s.lower()
RECURSIVE lower(_)
lower(s) ==
  IF Len(s) = 0 THEN "" ELSE lower_char(SubSeq(s, 1, 1)) \o lower(Tail(s))

\* s.startswith(p), s.endswith(p)
startswith(s, p) == Len(s) >= Len(p) /\ SubSeq(s, 1, Len(p)) = p
endswith(s, p) == Len(s) >= Len(p) /\ SubSeq(s, Len(s) - Len(p) + 1, Len(s)) = p

\* s[:n] and s[n:] for n >= 0, s[:-n] for n > 0 (strings and lists)
first(s, n) == SubSeq(s, 1, Min(n, Len(s)))
from(s, n) == SubSeq(s, n + 1, Len(s))
drop_last(s, n) == SubSeq(s, 1, Len(s) - n)

\* w in s, for strings
contains(s, w) ==
  \E i \in 1..(Len(s) - Len(w) + 1) : SubSeq(s, i, i + Len(w) - 1) = w

\* sep.join(parts), parts a sequence of strings
RECURSIVE join(_, _)
join(sep, parts) ==
  IF Len(parts) = 0 THEN ""
  ELSE IF Len(parts) = 1 THEN parts[1]
  ELSE parts[1] \o sep \o join(sep, Tail(parts))

-----------------------------------------------------------------------------
(* json.loads.  The JSON texts the language model is taken to answer with  *)
(* are listed with their parsed values; every other text is not JSON.      *)

JsonDict(d) == [ok |-> TRUE, isdict |-> TRUE, d |-> d, v |-> Null]
JsonValue(v) == [ok |-> TRUE, isdict |-> FALSE, d |-> <<>>, v |-> v]
JSONDecodeError == [ok |-> FALSE, isdict |-> FALSE, d |-> <<>>, v |-> Null]

DocDawnText ==
  "{\"emotional_tags\": [\"ethereal\", \"peaceful\", \"emerging\"], "
  \o "\"genres\": [\"ambient\", \"folk\"], "
  \o "\"playlist_name\": \"Dawn Mist Floating\", "
  \o "\"energy_level\": \"low\", \"tempo_feeling\": \"slow\", "
  \o "\"visual_imagery\": [\"mist\", \"dawn light\", \"floating\"], "
  \o "\"movement_quality\": \"weightless drifting\", "
  \o "\"color_palette\": [\"pearl gray\", \"soft gold\", "
  \o "\"misty white\"], \"search_keywords\": [\"ethereal\", "
  \o "\"atmospheric\", \"morning\"]}"

DocSprintText ==
  "{\"emotional_tags\": [\" Graceful\", \"TRIUMPHANT \", "
  \o "\"Flowing\", \"Confident\"], \"genres\": [\"Electronic\", "
  \o "\" Pop\", \"rock\", \"jazz\"], "
  \o "\"playlist_name\": \"  Graceful Victory Sprint Across The Endless Golden Finish Line \", "
  \o "\"energy_level\": \"High\", \"tempo_feeling\": \"Fast\", "
  \o "\"search_keywords\": [\"running\", \"victory\", \"momentum\", "
  \o "\"grace\", \"speed\", \"win\"]}"

DocMinimalText ==
  "{\"emotional_tags\": [\"Happy \"], \"genres\": [\"Pop\"], "
  \o "\"playlist_name\": \"Sunny\"}"

DocNoGenresText ==
  "{\"emotional_tags\": [\"calm\"], \"playlist_name\": \"Quiet\"}"

DocEmptyTagsText ==
  "{\"emotional_tags\": [], \"genres\": [\"pop\"], "
  \o "\"playlist_name\": \"Quiet\"}"

DocTagsStringText ==
  "{\"emotional_tags\": \"calm\", \"genres\": [\"pop\"], "
  \o "\"playlist_name\": \"Quiet\"}"

DocBlankNameText ==
  "{\"emotional_tags\": [\"calm\"], \"genres\": [\"pop\"], "
  \o "\"playlist_name\": \"   \"}"

DocNameNumberText ==
  "{\"emotional_tags\": [\"calm\"], \"genres\": [\"pop\"], "
  \o "\"playlist_name\": 7}"

DocTagNumberText ==
  "{\"emotional_tags\": [1], \"genres\": [\"pop\"], "
  \o "\"playlist_name\": \"Quiet\"}"

DocEnergyNullText ==
  "{\"emotional_tags\": [\"calm\"], \"genres\": [\"pop\"], "
  \o "\"playlist_name\": \"Quiet\", \"energy_level\": null}"

DocListText ==
  "[\"emotional_tags\", \"genres\", \"playlist_name\"]"

DocStringText ==
  "\"emotional_tags genres playlist_name\""

DocNumberText ==
  "42"

DocLavishText ==
  "{\"emotional_tags\": [\"Wistful\"], \"genres\": [\"Jazz\"], \"pla"
  \o "ylist_name\": \"Ash On Water\", \"visual_imagery\": [\"ash\", \""
  \o "water\", \"dusk\", \"spirals\", \"embers\", \"reeds\"], \"movement"
  \o "_quality\": \"  drifting weightlessly upward in slow widen"
  \o "ing spirals, then settling softly like ash on still wate"
  \o "r at dusk  \", \"color_palette\": [\"ember red\", \"slate\", \"b"
  \o "one white\", \"moss\"], \"search_keywords\": [\"rain\"]}"

DocExtremeText ==
  "{\"emotional_tags\": [\"wired\"], \"genres\": [\"techno\"], \"pla"
  \o "ylist_name\": \"Overdrive\", \"energy_level\": \"Extreme\", \"te"
  \o "mpo_feeling\": \"low/medium/high\"}"

DocDawnJson ==
  JsonDict([emotional_tags |-> List(<<Str("ethereal"), Str("peaceful"), Str("emerging")>>),
            genres |-> List(<<Str("ambient"), Str("folk")>>),
            playlist_name |-> Str("Dawn Mist Floating"),
            energy_level |-> Str("low"),
            tempo_feeling |-> Str("slow"),
            visual_imagery |-> List(<<Str("mist"), Str("dawn light"), Str("floating")>>),
            movement_quality |-> Str("weightless drifting"),
            color_palette |-> List(<<Str("pearl gray"), Str("soft gold"), Str("misty white")>>),
            search_keywords |-> List(<<Str("ethereal"), Str("atmospheric"), Str("morning")>>)])

DocSprintJson ==
  JsonDict([emotional_tags |-> List(<<Str(" Graceful"), Str("TRIUMPHANT "), Str("Flowing"), Str("Confident")>>),
            genres |-> List(<<Str("Electronic"), Str(" Pop"), Str("rock"), Str("jazz")>>),
            playlist_name |-> Str("  Graceful Victory Sprint Across The Endless Golden Finish Line "),
            energy_level |-> Str("High"),
            tempo_feeling |-> Str("Fast"),
            search_keywords |-> List(<<Str("running"), Str("victory"), Str("momentum"), Str("grace"), Str("speed"), Str("win")>>)])

DocMinimalJson ==
  JsonDict([emotional_tags |-> List(<<Str("Happy ")>>),
            genres |-> List(<<Str("Pop")>>),
            playlist_name |-> Str("Sunny")])

DocNoGenresJson ==
  JsonDict([emotional_tags |-> List(<<Str("calm")>>),
            playlist_name |-> Str("Quiet")])

DocEmptyTagsJson ==
  JsonDict([emotional_tags |-> List(<<>>),
            genres |-> List(<<Str("pop")>>),
            playlist_name |-> Str("Quiet")])

DocTagsStringJson ==
  JsonDict([emotional_tags |-> Str("calm"),
            genres |-> List(<<Str("pop")>>),
            playlist_name |-> Str("Quiet")])

DocBlankNameJson ==
  JsonDict([emotional_tags |-> List(<<Str("calm")>>),
            genres |-> List(<<Str("pop")>>),
            playlist_name |-> Str("   ")])

DocNameNumberJson ==
  JsonDict([emotional_tags |-> List(<<Str("calm")>>),
            genres |-> List(<<Str("pop")>>),
            playlist_name |-> Num])

DocTagNumberJson ==
  JsonDict([emotional_tags |-> List(<<Num>>),
            genres |-> List(<<Str("pop")>>),
            playlist_name |-> Str("Quiet")])

DocEnergyNullJson ==
  JsonDict([emotional_tags |-> List(<<Str("calm")>>),
            genres |-> List(<<Str("pop")>>),
            playlist_name |-> Str("Quiet"),
            energy_level |-> Null])

DocListJson ==
  JsonValue(List(<<Str("emotional_tags"), Str("genres"), Str("playlist_name")>>))

DocStringJson ==
  JsonValue(Str("emotional_tags genres playlist_name"))

DocNumberJson ==
  JsonValue(Num)

DocLavishJson ==
  JsonDict([emotional_tags |->
              List(<<Str("Wistful")>>),
            genres |->
              List(<<Str("Jazz")>>),
            playlist_name |->
              Str("Ash On Water"),
            visual_imagery |->
              List(<<Str("ash"),
                    Str("water"),
                    Str("dusk"),
                    Str("spirals"),
                    Str("embers"),
                    Str("reeds")>>),
            movement_quality |->
              Str("  drifting weightlessly upward in slow widening sp"
                \o "irals, then settling softly like ash on still wate"
                \o "r at dusk  "),
            color_palette |->
              List(<<Str("ember red"),
                    Str("slate"),
                    Str("bone white"),
                    Str("moss")>>),
            search_keywords |->
              List(<<Str("rain")>>)])

DocExtremeJson ==
  JsonDict([emotional_tags |->
              List(<<Str("wired")>>),
            genres |->
              List(<<Str("techno")>>),
            playlist_name |->
              Str("Overdrive"),
            energy_level |->
              Str("Extreme"),
            tempo_feeling |->
              Str("low/medium/high")])

json_loads(s) ==
  CASE s = DocDawnText -> DocDawnJson
    [] s = DocSprintText -> DocSprintJson
    [] s = DocMinimalText -> DocMinimalJson
    [] s = DocNoGenresText -> DocNoGenresJson
    [] s = DocEmptyTagsText -> DocEmptyTagsJson
    [] s = DocTagsStringText -> DocTagsStringJson
    [] s = DocBlankNameText -> DocBlankNameJson
    [] s = DocNameNumberText -> DocNameNumberJson
    [] s = DocTagNumberText -> DocTagNumberJson
    [] s = DocEnergyNullText -> DocEnergyNullJson
    [] s = DocListText -> DocListJson
    [] s = DocStringText -> DocStringJson
    [] s = DocNumberText -> DocNumberJson
    [] s = DocLavishText -> DocLavishJson
    [] s = DocExtremeText -> DocExtremeJson
    [] OTHER -> JSONDecodeError

-----------------------------------------------------------------------------
(* mood_to_music.py *)

\* "field not in mood_data" raises TypeError on a number or null
in_raises(parsed) == ~parsed.isdict /\ parsed.v.t \in {"num", "null"}

\* "field in mood_data": a key of a dict, an item of a list, a substring of a str
field_in(parsed, field) ==
  IF parsed.isdict THEN field \in DOMAIN parsed.d
  ELSE IF parsed.v.t = "list"
       THEN \E i \in 1..Len(parsed.v.l) : parsed.v.l[i] = Str(field)
       ELSE parsed.v.t = "str" /\ contains(parsed.v.s, field)

required_fields == <<"emotional_tags", "genres", "playlist_name">>

\* [tag.strip().lower() for tag in tags[:3]]
clean_tags(tags) ==
  List([i \in 1..Min(3, Len(tags.l)) |-> Str(lower(strip(tags.l[i].s)))])

\* a clean_name that trims and does not clamp
clean_name_unclamped(name) == strip(name)

\* line 135: mood_data['playlist_name'].strip()[:50]
clean_name(name) == first(strip(name), 50)

\* a v[:n] that keeps everything
slice_value_whole(v, n) == v

\* mood_data.get(key, default)
dict_get(d, key, default) == IF key \in DOMAIN d THEN d[key] ELSE default

\* v[:n] for a str or a list
slice_value(v, n) == IF v.t = "str" THEN Str(first(v.s, n)) ELSE List(first(v.l, n))

\* lines 132-145, once the required fields are validated
normalize_mood_data(d) ==
  LET energy == dict_get(d, "energy_level", Str("medium"))
      tempo == dict_get(d, "tempo_feeling", Str("moderate"))
      imagery == dict_get(d, "visual_imagery", List(<<>>))
      movement == dict_get(d, "movement_quality", Str(""))
      palette == dict_get(d, "color_palette", List(<<>>))
      keywords == dict_get(d, "search_keywords", List(<<>>))
      tags == d["emotional_tags"]
      genres == d["genres"]
      sliceable(v) == v.t \in {"str", "list"}
  IN IF \/ \E i \in 1..Min(3, Len(tags.l)) : tags.l[i].t # "str"
        \/ \E i \in 1..Min(3, Len(genres.l)) : genres.l[i].t # "str"
        \/ energy.t # "str" \/ tempo.t # "str" \/ movement.t # "str"
     THEN Raised("AttributeError", "object has no attribute")
     ELSE IF ~sliceable(imagery) \/ ~sliceable(palette) \/ ~sliceable(keywords)
     THEN Raised("TypeError", "object is not subscriptable")
     ELSE Returned(
       [k \in DOMAIN d \cup {"energy_level", "tempo_feeling", "visual_imagery",
                             "movement_quality", "color_palette", "search_keywords"} |->
          CASE k = "emotional_tags" -> clean_tags(tags)
            [] k = "genres" -> clean_tags(genres)
            [] k = "playlist_name" -> Str(clean_name(d[k].s))
            [] k = "energy_level" -> Str(lower(energy.s))
            [] k = "tempo_feeling" -> Str(lower(tempo.s))
            [] k = "visual_imagery" -> slice_value(imagery, 5)
            [] k = "movement_quality" -> Str(first(strip(movement.s), 100))
            [] k = "color_palette" -> slice_value(palette, 3)
            [] k = "search_keywords" -> slice_value(keywords, 5)
            [] OTHER -> d[k]])

\* The Markdown code fence, three grave accents.  SANY does not lex a grave
\* accent inside a string, so the circumflex stands for it in every text here.
Fence == "^^^"

\* cleaned_response of lines 106-111
clean_response(mood_response) ==
  LET stripped == strip(mood_response)
      unfenced == IF startswith(stripped, Fence \o "json") THEN from(stripped, 7)
                  ELSE stripped
      unclosed == IF endswith(unfenced, Fence) THEN drop_last(unfenced, 3)
                  ELSE unfenced
  IN strip(unclosed)

\* a validation that lets an empty list of tags through
extract_mood_components_any_tags(mood_response) ==
  LET mood_data == json_loads(clean_response(mood_response))
  IN IF ~mood_data.ok
     THEN Raised("ValueError", "Invalid JSON response from OpenAI")
     ELSE IF in_raises(mood_data)
     THEN Raised("TypeError", "argument is not iterable")
     ELSE IF \E i \in 1..Len(required_fields) : ~field_in(mood_data, required_fields[i])
     THEN Raised("ValueError", "Missing required field")
     ELSE IF ~mood_data.isdict
     THEN Raised("TypeError", "indices must be integers")
     ELSE IF mood_data.d["emotional_tags"].t # "list"
     THEN Raised("ValueError", "emotional_tags must be a non-empty list")
     ELSE IF mood_data.d["genres"].t # "list" \/ Len(mood_data.d["genres"].l) = 0
     THEN Raised("ValueError", "genres must be a non-empty list")
     ELSE IF mood_data.d["playlist_name"].t # "str" \/ strip(mood_data.d["playlist_name"].s) = ""
     THEN Raised("ValueError", "playlist_name must be a non-empty string")
     ELSE normalize_mood_data(mood_data.d)

extract_mood_components(mood_response) ==
  LET mood_data == json_loads(clean_response(mood_response))
  IN IF ~mood_data.ok
     THEN Raised("ValueError", "Invalid JSON response from OpenAI")
     ELSE IF in_raises(mood_data)
     THEN Raised("TypeError", "argument is not iterable")
     ELSE IF \E i \in 1..Len(required_fields) : ~field_in(mood_data, required_fields[i])
     THEN Raised("ValueError", "Missing required field")
     ELSE IF ~mood_data.isdict
     THEN Raised("TypeError", "indices must be integers")
     ELSE IF mood_data.d["emotional_tags"].t # "list" \/ Len(mood_data.d["emotional_tags"].l) = 0
     THEN Raised("ValueError", "emotional_tags must be a non-empty list")
     ELSE IF mood_data.d["genres"].t # "list" \/ Len(mood_data.d["genres"].l) = 0
     THEN Raised("ValueError", "genres must be a non-empty list")
     ELSE IF mood_data.d["playlist_name"].t # "str" \/ strip(mood_data.d["playlist_name"].s) = ""
     THEN Raised("ValueError", "playlist_name must be a non-empty string")
     ELSE normalize_mood_data(mood_data.d)

\* any(word in mood_lower for word in words)
any_word_in(mood_lower, words) ==
  \E i \in 1..Len(words) : contains(mood_lower, words[i])

\* a fallback that tries the happy bucket before the calm one
create_fallback_happy_first(text) ==
  LET mood_lower == lower(text)
  IN IF any_word_in(mood_lower, <<"happy", "excited", "energetic", "pumped">>)
     THEN [emotional_tags |-> List(<<Str("happy"), Str("energetic")>>),
           genres |-> List(<<Str("pop"), Str("electronic")>>),
           playlist_name |-> Str("Energy Boost")]
     ELSE IF any_word_in(mood_lower, <<"calm", "peaceful", "relaxed", "serene">>)
     THEN [emotional_tags |-> List(<<Str("calm"), Str("peaceful")>>),
           genres |-> List(<<Str("ambient"), Str("folk")>>),
           playlist_name |-> Str("Peaceful Moments")]
     ELSE IF any_word_in(mood_lower, <<"sad", "melancholy", "down", "blue">>)
     THEN [emotional_tags |-> List(<<Str("melancholic"), Str("reflective")>>),
           genres |-> List(<<Str("folk"), Str("indie")>>),
           playlist_name |-> Str("Reflection Time")]
     ELSE [emotional_tags |-> List(<<Str("contemplative"), Str("mixed")>>),
           genres |-> List(<<Str("indie"), Str("alternative")>>),
           playlist_name |-> Str("Mixed Feelings")]

create_fallback_mood_analysis(text) ==
  LET mood_lower == lower(text)
  IN IF any_word_in(mood_lower, <<"calm", "peaceful", "relaxed", "serene">>)
     THEN [emotional_tags |-> List(<<Str("calm"), Str("peaceful")>>),
           genres |-> List(<<Str("ambient"), Str("folk")>>),
           playlist_name |-> Str("Peaceful Moments")]
     ELSE IF any_word_in(mood_lower, <<"happy", "excited", "energetic", "pumped">>)
     THEN [emotional_tags |-> List(<<Str("happy"), Str("energetic")>>),
           genres |-> List(<<Str("pop"), Str("electronic")>>),
           playlist_name |-> Str("Energy Boost")]
     ELSE IF any_word_in(mood_lower, <<"sad", "melancholy", "down", "blue">>)
     THEN [emotional_tags |-> List(<<Str("melancholic"), Str("reflective")>>),
           genres |-> List(<<Str("folk"), Str("indie")>>),
           playlist_name |-> Str("Reflection Time")]
     ELSE [emotional_tags |-> List(<<Str("contemplative"), Str("mixed")>>),
           genres |-> List(<<Str("indie"), Str("alternative")>>),
           playlist_name |-> Str("Mixed Feelings")]

-----------------------------------------------------------------------------
(* analyze_mood, one action per stretch of lines between two decisions *)

MoodTexts ==
  {"", "   ", " \n\t", "calm", "I feel Calm and happy", "so sad and blue",
   "HAPPY!", "download finished", "anxious but hopeful",
   "feeling serene, not sad"}

\* os.getenv of OPENAI_API_KEY: unset (None), set to the empty string, or set
ApiKeys == {Null, Str(""), Str("sk-test")}

\* message.content of the completion, when the request does not raise
ResponseTexts ==
  {DocDawnText, DocSprintText, DocMinimalText, DocNoGenresText,
   DocEmptyTagsText, DocTagsStringText, DocBlankNameText, DocNameNumberText,
   DocTagNumberText, DocEnergyNullText, DocListText, DocStringText,
   DocNumberText, DocLavishText, DocExtremeText,
   Fence \o "json\n" \o DocDawnText \o "\n" \o Fence,
   Fence \o "json\n" \o DocMinimalText,
   Fence \o "\n" \o DocMinimalText \o "\n" \o Fence,
   "  " \o DocMinimalText \o "\n",
   "Sorry, I cannot help with that.",
   ""}

\* client.chat.completions.create either raises or answers with a content
CompletionOutcomes ==
  {[raises |-> TRUE, content |-> Null], [raises |-> FALSE, content |-> Null]}
  \cup {[raises |-> FALSE, content |-> Str(text)] : text \in ResponseTexts}

NoCompletion == [raises |-> FALSE, content |-> Null]

InitAnalyze ==
  /\ mood_text \in MoodTexts
  /\ openai_api_key \in ApiKeys
  /\ analyze_pc = "line20"
  /\ getenv_calls = 0
  /\ completion_calls = 0
  /\ completion = NoCompletion
  /\ caught = ""
  /\ analyze_result = NotCalled

\* a check that tests only "not mood_text"
analyze_check_text_no_strip ==
  /\ analyze_pc = "line20"
  /\ IF mood_text = ""
     THEN /\ analyze_result' = Raised("ValueError", "Mood text cannot be empty")
          /\ analyze_pc' = "done"
     ELSE /\ analyze_pc' = "line23"
          /\ UNCHANGED analyze_result
  /\ UNCHANGED <<mood_text, openai_api_key, getenv_calls, completion_calls,
                 completion, caught>>
  /\ UNCHANGED outsideAnalyze

\* lines 20-21
analyze_check_text ==
  /\ analyze_pc = "line20"
  /\ IF mood_text = "" \/ strip(mood_text) = ""
     THEN /\ analyze_result' = Raised("ValueError", "Mood text cannot be empty")
          /\ analyze_pc' = "done"
     ELSE /\ analyze_pc' = "line23"
          /\ UNCHANGED analyze_result
  /\ UNCHANGED <<mood_text, openai_api_key, getenv_calls, completion_calls,
                 completion, caught>>
  /\ UNCHANGED outsideAnalyze

\* a lookup that tests only "api_key is None"
analyze_getenv_none_only ==
  /\ analyze_pc = "line23"
  /\ getenv_calls' = getenv_calls + 1
  /\ IF openai_api_key.t = "null"
     THEN /\ analyze_result' =
               Raised("ValueError", "OpenAI API key not found in environment variables")
          /\ analyze_pc' = "done"
     ELSE /\ analyze_pc' = "line32"
          /\ UNCHANGED analyze_result
  /\ UNCHANGED <<mood_text, openai_api_key, completion_calls, completion, caught>>
  /\ UNCHANGED outsideAnalyze

\* lines 23-25
analyze_getenv ==
  /\ analyze_pc = "line23"
  /\ getenv_calls' = getenv_calls + 1
  /\ IF ~Truthy(openai_api_key)
     THEN /\ analyze_result' =
               Raised("ValueError", "OpenAI API key not found in environment variables")
          /\ analyze_pc' = "done"
     ELSE /\ analyze_pc' = "line32"
          /\ UNCHANGED analyze_result
  /\ UNCHANGED <<mood_text, openai_api_key, completion_calls, completion, caught>>
  /\ UNCHANGED outsideAnalyze

\* lines 27-46: the one chat-completion request
analyze_request ==
  /\ analyze_pc = "line32"
  /\ completion_calls' = completion_calls + 1
  /\ \E outcome \in CompletionOutcomes :
       /\ completion' = outcome
       /\ IF outcome.raises
          THEN analyze_pc' = "line51" /\ caught' = "APIError"
          ELSE analyze_pc' = "line48" /\ UNCHANGED caught
  /\ UNCHANGED <<mood_text, openai_api_key, getenv_calls, analyze_result>>
  /\ UNCHANGED outsideAnalyze

\* lines 48-49
analyze_extract ==
  /\ analyze_pc = "line48"
  /\ IF completion.content.t # "str"
     THEN /\ analyze_pc' = "line51"
          /\ caught' = "AttributeError"
          /\ UNCHANGED analyze_result
     ELSE LET extracted == extract_mood_components(strip(completion.content.s))
          IN IF extracted.kind = "returned"
             THEN /\ analyze_result' = extracted
                  /\ analyze_pc' = "done"
                  /\ UNCHANGED caught
             ELSE /\ analyze_pc' = "line51"
                  /\ caught' = extracted.exc
                  /\ UNCHANGED analyze_result
  /\ UNCHANGED <<mood_text, openai_api_key, getenv_calls, completion_calls,
                 completion>>
  /\ UNCHANGED outsideAnalyze

\* an except branch that sends the request once more before falling back
analyze_fallback_retry ==
  /\ analyze_pc = "line51"
  /\ IF completion_calls < 2
     THEN /\ analyze_pc' = "line32"
          /\ UNCHANGED analyze_result
     ELSE /\ analyze_result' = Returned(create_fallback_mood_analysis(mood_text))
          /\ analyze_pc' = "done"
  /\ UNCHANGED <<mood_text, openai_api_key, getenv_calls, completion_calls,
                 completion, caught>>
  /\ UNCHANGED outsideAnalyze

\* lines 51-54
analyze_fallback ==
  /\ analyze_pc = "line51"
  /\ analyze_result' = Returned(create_fallback_mood_analysis(mood_text))
  /\ analyze_pc' = "done"
  /\ UNCHANGED <<mood_text, openai_api_key, getenv_calls, completion_calls,
                 completion, caught>>
  /\ UNCHANGED outsideAnalyze

NextAnalyze ==
  \/ analyze_check_text
  \/ analyze_getenv
  \/ analyze_request
  \/ analyze_extract
  \/ analyze_fallback

-----------------------------------------------------------------------------
(* spotify_client.py: class SpotifyClient.  The catalog service is the     *)
(* environment: each request to it either raises or answers, and requests  *)
(* records the requests one operation sent, in order, with their answers.  *)

None == "None"

\* weights in tenths: 0.4, 0.3, 0.2 and 0.1 of lines 54, 63, 68 and 89
GenreWeight == 4
KeywordGenreWeight == 3
KeywordWeight == 2
EnergyWeight == 1

\* lines 72-76
energy_terms ==
  [low |-> <<"chill", "ambient", "calm", "peaceful">>,
   medium |-> <<"groovy", "steady", "flowing">>,
   high |-> <<"energetic", "powerful", "intense", "upbeat">>]

\* lines 51-55
genre_queries(genres) ==
  [i \in 1..Len(genres) |-> [query |-> "genre:" \o genres[i], weight |-> GenreWeight]]

\* lines 58-69, for the keywords left
RECURSIVE keyword_queries(_, _)
keyword_queries(keywords, genres) ==
  IF Len(keywords) = 0 THEN <<>>
  ELSE (IF Len(genres) > 0
        THEN <<[query |-> keywords[1] \o " genre:" \o genres[1],
                weight |-> KeywordGenreWeight]>>
        ELSE <<>>)
       \o <<[query |-> keywords[1], weight |-> KeywordWeight]>>
       \o keyword_queries(Tail(keywords), genres)

\* lines 85-90
energy_queries(energy_level, genres) ==
  IF Truthy(energy_level) /\ energy_level.s \in DOMAIN energy_terms
  THEN LET terms == first(energy_terms[energy_level.s], 2)
       IN [i \in 1..Len(terms) |->
             [query |-> terms[i] \o " " \o (IF Len(genres) > 0 THEN genres[1] ELSE ""),
              weight |-> EnergyWeight]]
  ELSE <<>>

\* the batch without the cut at three keywords of line 58
build_search_queries_all_keywords(genres, search_keywords, energy_level) ==
  genre_queries(genres)
  \o keyword_queries(IF Truthy(search_keywords) THEN search_keywords.l ELSE <<>>, genres)
  \o energy_queries(energy_level, genres)

\* lines 45-90: search_queries; search_keywords is a list or None
build_search_queries(genres, search_keywords, energy_level) ==
  genre_queries(genres)
  \o keyword_queries(first(IF Truthy(search_keywords) THEN search_keywords.l ELSE <<>>, 3),
                     genres)
  \o energy_queries(energy_level, genres)

\* line 93
RECURSIVE total_weight(_)
total_weight(queries) ==
  IF Len(queries) = 0 THEN 0 ELSE queries[1].weight + total_weight(Tail(queries))

\* round(n / d) as Python rounds: to the nearest integer, a tie to the even one
round_half_even(n, d) ==
  LET q == n \div d
      r == n % d
  IN IF 2 * r < d THEN q
     ELSE IF 2 * r > d THEN q + 1
     ELSE IF q % 2 = 0 THEN q ELSE q + 1

\* a quota that rounds the share
tracks_needed_rounded(weight, total, limit) ==
  Max(1, round_half_even(weight * limit, total))

\* line 97 computes (weight / total_weight) * limit in double precision.  For
\* the batches lines 45-90 build and limits up to 6 or equal to 15 the double
\* is the exact share or, when the share is a whole number, possibly just
\* below it; these are the (weight, total, limit), in tenths, where it is below
DoubleBelow == {<<3, 15, 5>>, <<3, 15, 15>>}

\* int(x) of that double
int_share(weight, total, limit) ==
  (weight * limit) \div total
  - (IF <<weight, total, limit>> \in DoubleBelow THEN 1 ELSE 0)

\* line 97: max(1, int((weight / total_weight) * limit)), for limit >= 0
\* every query asking for the whole limit
tracks_needed_full(weight, total, limit) == Max(1, limit)

tracks_needed(weight, total, limit) == Max(1, int_share(weight, total, limit))

\* the items of a catalog answer: track records, or null
TrackA ==
  [t |-> "track", name |-> "Dawn Mist", artists |-> <<"Ana">>,
   uri |-> "spotify:track:A", preview_url |-> "",
   external_url |-> "https://open.spotify.com/track/A"]

TrackB ==
  [t |-> "track", name |-> "Soft Gold", artists |-> <<"Ben", "Cy">>,
   uri |-> "spotify:track:B", preview_url |-> "https://p.scdn.co/B",
   external_url |-> "https://open.spotify.com/track/B"]

NullItem ==
  [t |-> "null", name |-> "", artists |-> <<>>, uri |-> "", preview_url |-> "",
   external_url |-> ""]

CatalogItems == {TrackA, TrackB, NullItem}

\* lines 107-114 raise on an item that is null or has no artist
item_raises(item) == item.t # "track" \/ Len(item.artists) = 0

\* lines 107-114
track_info(item, query) ==
  [name |-> item.name, artist |-> item.artists[1], uri |-> item.uri,
   preview_url |-> item.preview_url, external_url |-> item.external_url,
   search_source |-> query]

\* lines 106-115: the tracks appended before the loop ends or an item raises
RECURSIVE appended_tracks(_, _)
appended_tracks(items, query) ==
  IF Len(items) = 0 \/ item_raises(items[1]) THEN <<>>
  ELSE <<track_info(items[1], query)>> \o appended_tracks(Tail(items), query)

\* a dedupe that keeps every track
dedupe_keep_all(tracks) == tracks

\* lines 121-127: the first track of each uri, in order
RECURSIVE dedupe(_)
dedupe(tracks) ==
  IF Len(tracks) = 0 THEN <<>>
  ELSE LET rest == dedupe(SubSeq(tracks, 1, Len(tracks) - 1))
           last == tracks[Len(tracks)]
       IN IF \E i \in 1..Len(rest) : rest[i].uri = last.uri
          THEN rest
          ELSE Append(rest, last)

\* line 130: random.shuffle leaves some permutation of the list
Shuffles(tracks) ==
  {[i \in 1..Len(tracks) |-> tracks[p[i]]] : p \in Permutations(1..Len(tracks))}

\* the answers sp.search may give to a request for at most k tracks: it
\* raises, or returns up to k distinct items
SearchAnswers(k) ==
  {[raises |-> TRUE, items |-> <<>>]}
  \cup {[raises |-> FALSE, items |-> items] :
          items \in UNION {{s \in [1..n -> CatalogItems] :
                              \A i, j \in 1..n : i # j => s[i] # s[j]} :
                           n \in 0..Min(k, MaxItems)}}

\* app.py line 126: the limit create_mood_canvas asks for
AppLimit == 15

\* the arguments search_tracks is called with
SearchLimits == (0..MaxLimit) \cup {AppLimit}
SearchGenres == {<<>>, <<"ambient">>, <<"ambient", "folk">>}
SearchKeywords == {Null, List(<<"victory">>)}
SearchEnergy == {Null, Str("low"), Str("extreme")}

\* the arguments create_playlist is called with
PlaylistTracks == {<<>>, <<"spotify:track:A", "spotify:track:B">>}
PlaylistPrompts == {Null, Str(""), Str("calm")}
PlaylistTags == {Null, List(<<"calm", "peaceful">>)}
PlaylistGenres == {Null, List(<<"ambient", "folk">>)}

NoOp == [name |-> "none"]
NoPlaylist == [id |-> "", url |-> ""]

InitClient ==
  /\ sp = None
  /\ user_id = Null
  /\ last_authenticate = "none"
  /\ client_op = NoOp
  /\ client_pc = "idle"
  /\ search_queries = <<>>
  /\ query_index = 0
  /\ all_tracks = <<>>
  /\ playlist = NoPlaylist
  /\ requests = <<>>
  /\ client_result = NotCalled

\* lines 28-37
authenticate ==
  /\ client_pc = "idle"
  /\ client_op' = [name |-> "authenticate"]
  /\ sp' = "Spotify"
  /\ \E ok \in BOOLEAN :
       /\ requests' = <<[api |-> "current_user", ok |-> ok]>>
       /\ user_id' = IF ok THEN Str("mooduser") ELSE user_id
       /\ client_result' = Returned(ok)
       /\ last_authenticate' = IF ok THEN "True" ELSE "False"
  /\ search_queries' = <<>> /\ query_index' = 0 /\ all_tracks' = <<>>
  /\ playlist' = NoPlaylist
  /\ UNCHANGED client_pc
  /\ UNCHANGED outsideClient

\* a check that lets every client through
search_not_authenticated_skipped == FALSE

\* line 41: not self.sp
search_not_authenticated == sp = None

\* lines 39-93
search_tracks_call ==
  /\ client_pc = "idle"
  /\ \E genres \in SearchGenres, limit \in 0..MaxLimit,
        search_keywords \in SearchKeywords, energy_level \in SearchEnergy :
       /\ Len(build_search_queries(genres, search_keywords, energy_level)) <= MaxQueries
       /\ client_op' = [name |-> "search_tracks", genres |-> genres, limit |-> limit,
                        search_keywords |-> search_keywords,
                        energy_level |-> energy_level]
       /\ requests' = <<>>
       /\ all_tracks' = <<>>
       /\ IF search_not_authenticated
          THEN /\ client_result' =
                    Raised("Exception", "Not authenticated. Call authenticate() first.")
               /\ search_queries' = <<>>
               /\ query_index' = 0
               /\ UNCHANGED client_pc
          ELSE /\ client_result' = NotCalled
               /\ search_queries' =
                    build_search_queries(genres, search_keywords, energy_level)
               /\ query_index' = 1
               /\ client_pc' = "line95"
  /\ playlist' = NoPlaylist
  /\ UNCHANGED <<sp, user_id, last_authenticate>>
  /\ UNCHANGED outsideClient

\* a loop that the first failing query ends
search_tracks_query_abort ==
  /\ client_pc = "line95"
  /\ query_index <= Len(search_queries)
  /\ LET query_info == search_queries[query_index]
         needed == tracks_needed(query_info.weight, total_weight(search_queries),
                                 client_op.limit)
     IN \E answer \in SearchAnswers(needed) :
          /\ requests' = Append(requests,
                                [api |-> "search", q |-> query_info.query,
                                 limit |-> needed, ok |-> ~answer.raises,
                                 items |-> answer.items])
          /\ all_tracks' = all_tracks \o appended_tracks(answer.items, query_info.query)
          /\ query_index' = IF answer.raises THEN Len(search_queries) + 1
                            ELSE query_index + 1
  /\ UNCHANGED <<sp, user_id, last_authenticate, client_op, client_pc,
                 search_queries, playlist, client_result>>
  /\ UNCHANGED outsideClient

\* lines 95-119: one turn of the loop over search_queries
search_tracks_query ==
  /\ client_pc = "line95"
  /\ query_index <= Len(search_queries)
  /\ LET query_info == search_queries[query_index]
         needed == tracks_needed(query_info.weight, total_weight(search_queries),
                                 client_op.limit)
     IN \E answer \in SearchAnswers(needed) :
          /\ requests' = Append(requests,
                                [api |-> "search", q |-> query_info.query,
                                 limit |-> needed, ok |-> ~answer.raises,
                                 items |-> answer.items])
          /\ all_tracks' = all_tracks \o appended_tracks(answer.items, query_info.query)
  /\ query_index' = query_index + 1
  /\ UNCHANGED <<sp, user_id, last_authenticate, client_op, client_pc,
                 search_queries, playlist, client_result>>
  /\ UNCHANGED outsideClient

\* lines 121-131
search_tracks_return ==
  /\ client_pc = "line95"
  /\ query_index > Len(search_queries)
  /\ \E shuffled \in Shuffles(dedupe(all_tracks)) :
       client_result' = Returned(first(shuffled, client_op.limit))
  /\ client_pc' = "idle"
  /\ UNCHANGED <<sp, user_id, last_authenticate, client_op, search_queries,
                 query_index, all_tracks, playlist, requests>>
  /\ UNCHANGED outsideClient

\* a check of the session alone
create_not_authenticated_sp_only == sp = None

\* line 147: not self.sp or not self.user_id
create_not_authenticated == sp = None \/ ~Truthy(user_id)

\* the emoji that ends the first part of the description (not ASCII)
ArtistPalette == "*"

\* lines 152-163
playlist_description(mood_prompt, emotional_tags, genres) ==
  join(" | ",
       <<"Generated by MoodCanvas " \o ArtistPalette>>
       \o (IF Truthy(mood_prompt) THEN <<"Mood: \"" \o mood_prompt.s \o "\"">> ELSE <<>>)
       \o (IF Truthy(emotional_tags)
           THEN <<"Emotions: " \o join(", ", emotional_tags.l)>> ELSE <<>>)
       \o (IF Truthy(genres) THEN <<"Genres: " \o join(", ", genres.l)>> ELSE <<>>))

\* lines 133-163
create_playlist_call ==
  /\ client_pc = "idle"
  /\ \E tracks \in PlaylistTracks, mood_prompt \in PlaylistPrompts,
        emotional_tags \in PlaylistTags, genres \in PlaylistGenres :
       client_op' = [name |-> "create_playlist", pname |-> "Peaceful Moments",
                     tracks |-> tracks, mood_prompt |-> mood_prompt,
                     emotional_tags |-> emotional_tags, genres |-> genres]
  /\ requests' = <<>>
  /\ playlist' = NoPlaylist
  /\ IF create_not_authenticated
     THEN /\ client_result' =
               Raised("Exception", "Not authenticated. Call authenticate() first.")
          /\ UNCHANGED client_pc
     ELSE /\ client_result' = NotCalled
          /\ client_pc' = "line166"
  /\ search_queries' = <<>> /\ query_index' = 0 /\ all_tracks' = <<>>
  /\ UNCHANGED <<sp, user_id, last_authenticate>>
  /\ UNCHANGED outsideClient

\* a create request whose failure does not stop the tracks from being added
create_playlist_create_then_add ==
  /\ client_pc = "line166"
  /\ \E ok \in BOOLEAN :
       /\ requests' = Append(requests,
            [api |-> "user_playlist_create", ok |-> ok, user |-> user_id.s,
             name |-> client_op.pname, public |-> TRUE,
             description |-> playlist_description(client_op.mood_prompt,
                                                  client_op.emotional_tags,
                                                  client_op.genres)])
       /\ playlist' = IF ok THEN [id |-> "pl1",
                                  url |-> "https://open.spotify.com/playlist/pl1"]
                      ELSE playlist
       /\ client_pc' = IF Len(client_op.tracks) > 0 THEN "line177" ELSE "line179"
       /\ UNCHANGED client_result
  /\ UNCHANGED <<sp, user_id, last_authenticate, client_op, search_queries,
                 query_index, all_tracks>>
  /\ UNCHANGED outsideClient

\* lines 166-173, and 185-187 when the request raises
create_playlist_create ==
  /\ client_pc = "line166"
  /\ \E ok \in BOOLEAN :
       /\ requests' = Append(requests,
            [api |-> "user_playlist_create", ok |-> ok, user |-> user_id.s,
             name |-> client_op.pname, public |-> TRUE,
             description |-> playlist_description(client_op.mood_prompt,
                                                  client_op.emotional_tags,
                                                  client_op.genres)])
       /\ IF ok
          THEN /\ playlist' = [id |-> "pl1",
                               url |-> "https://open.spotify.com/playlist/pl1"]
               /\ client_pc' = IF Len(client_op.tracks) > 0 THEN "line177" ELSE "line179"
               /\ UNCHANGED client_result
          ELSE /\ client_result' = Returned(Null)
               /\ client_pc' = "idle"
               /\ UNCHANGED playlist
  /\ UNCHANGED <<sp, user_id, last_authenticate, client_op, search_queries,
                 query_index, all_tracks>>
  /\ UNCHANGED outsideClient

\* an add-items whose failure makes the client unfollow the playlist
create_playlist_add_compensated ==
  /\ client_pc = "line177"
  /\ \E ok \in BOOLEAN :
       /\ requests' =
            Append(requests,
                   [api |-> "playlist_add_items", ok |-> ok,
                    playlist_id |-> playlist.id, items |-> client_op.tracks])
            \o (IF ok THEN <<>>
                ELSE <<[api |-> "current_user_unfollow_playlist", ok |-> TRUE,
                        playlist_id |-> playlist.id]>>)
       /\ IF ok
          THEN /\ client_pc' = "line179"
               /\ UNCHANGED client_result
          ELSE /\ client_result' = Returned(Null)
               /\ client_pc' = "idle"
  /\ UNCHANGED <<sp, user_id, last_authenticate, client_op, search_queries,
                 query_index, all_tracks, playlist>>
  /\ UNCHANGED outsideClient

\* an add-items whose failure is swallowed
create_playlist_add_swallow ==
  /\ client_pc = "line177"
  /\ \E ok \in BOOLEAN :
       requests' = Append(requests,
            [api |-> "playlist_add_items", ok |-> ok, playlist_id |-> playlist.id,
             items |-> client_op.tracks])
  /\ client_pc' = "line179"
  /\ UNCHANGED <<sp, user_id, last_authenticate, client_op, search_queries,
                 query_index, all_tracks, playlist, client_result>>
  /\ UNCHANGED outsideClient

\* lines 176-177, and 185-187 when the request raises
create_playlist_add ==
  /\ client_pc = "line177"
  /\ \E ok \in BOOLEAN :
       /\ requests' = Append(requests,
            [api |-> "playlist_add_items", ok |-> ok, playlist_id |-> playlist.id,
             items |-> client_op.tracks])
       /\ IF ok
          THEN /\ client_pc' = "line179"
               /\ UNCHANGED client_result
          ELSE /\ client_result' = Returned(Null)
               /\ client_pc' = "idle"
  /\ UNCHANGED <<sp, user_id, last_authenticate, client_op, search_queries,
                 query_index, all_tracks, playlist>>
  /\ UNCHANGED outsideClient

\* lines 179-183
create_playlist_return ==
  /\ client_pc = "line179"
  /\ client_result' =
       Returned([url |-> playlist.url, id |-> playlist.id,
                 embed_url |-> "https://open.spotify.com/embed/playlist/" \o playlist.id])
  /\ client_pc' = "idle"
  /\ UNCHANGED <<sp, user_id, last_authenticate, client_op, search_queries,
                 query_index, all_tracks, playlist, requests>>
  /\ UNCHANGED outsideClient

NextClient ==
  \/ authenticate
  \/ search_tracks_call
  \/ search_tracks_query
  \/ search_tracks_return
  \/ create_playlist_call
  \/ create_playlist_create
  \/ create_playlist_add
  \/ create_playlist_return

-----------------------------------------------------------------------------
(* image_generator.py and video_generator.py: the prompt composers.  Both  *)
(* are pure functions of the profile fields and the mood text.             *)

\* the character budgets of image_generator.py line 171 and
\* video_generator.py line 196, and the mood-text lengths of lines 87 / 128
ImageLimit == 900
VideoLimit == 800
ImageMoodTextMax == 80
VideoMoodTextMax == 60

\* v or [] and v or default, for an Optional list and an Optional str
or_list(v) == IF Truthy(v) THEN v.l ELSE <<>>
or_str(v, default) == IF Truthy(v) THEN v.s ELSE default

\* for key in keys: if key in table: append table[key]
RECURSIVE all_in(_, _)
all_in(keys, table) ==
  IF Len(keys) = 0 THEN <<>>
  ELSE (IF keys[1] \in DOMAIN table THEN <<table[keys[1]]>> ELSE <<>>)
       \o all_in(Tail(keys), table)

\* the same loop with a break after the first append
RECURSIVE first_in(_, _)
first_in(keys, table) ==
  IF Len(keys) = 0 THEN <<>>
  ELSE IF keys[1] \in DOMAIN table THEN <<table[keys[1]]>>
  ELSE first_in(Tail(keys), table)

\* image_generator.py lines 98-102
image_energy_qualities ==
  [low |-> "gentle, flowing, peaceful movement",
   medium |-> "steady, rhythmic, balanced energy",
   high |-> "dynamic, powerful, intense motion"]

\* image_generator.py lines 116-124
image_emotion_colors ==
  [graceful |-> "elegant gold and white tones",
   triumphant |-> "victory gold and electric blue",
   flowing |-> "fluid blues and silvers",
   energetic |-> "vibrant oranges and electric colors",
   calm |-> "soft blues and pearl whites",
   confident |-> "bold golds and deep blues",
   peaceful |-> "gentle greens and soft whites"]

\* image_generator.py lines 135-142
image_genre_styles ==
  [electronic |-> "digital art, geometric patterns, futuristic elements",
   pop |-> "vibrant, contemporary, bold graphics",
   folk |-> "organic, natural textures, hand-crafted feel",
   ambient |-> "atmospheric, ethereal, abstract flows",
   rock |-> "dramatic, high contrast, powerful composition",
   classical |-> "elegant, refined, timeless beauty"]

\* image_generator.py lines 149-155
image_emotion_styles ==
  [graceful |-> "fluid, elegant curves, refined composition",
   triumphant |-> "upward movement, victory poses, heroic lighting",
   flowing |-> "smooth gradients, continuous motion lines",
   confident |-> "strong composition, clear focal points",
   energetic |-> "dynamic angles, explosive patterns"]

\* image_generator.py lines 85-95: the core concept
image_core(emotional_tags, text, visual_imagery) ==
  IF Len(visual_imagery) > 0
  THEN IF Truthy(text) /\ Len(text.s) < ImageMoodTextMax
       THEN "Dynamic artwork showing " \o join(", ", first(visual_imagery, 3))
            \o ", inspired by '" \o text.s \o "'"
       ELSE "Dynamic artwork featuring " \o join(", ", first(visual_imagery, 3))
  ELSE IF Truthy(text) /\ Len(text.s) < ImageMoodTextMax
  THEN "Abstract visual representation of '" \o text.s \o "'"
  ELSE "Abstract artwork expressing " \o join(", ", first(emotional_tags, 3))
       \o " emotions"

\* image_generator.py lines 111-129: the colour clause
image_colors(emotional_tags, color_palette) ==
  IF Len(color_palette) > 0
  THEN <<"featuring " \o join(", ", first(color_palette, 3)) \o " color palette">>
  ELSE first_in(first(emotional_tags, 2), image_emotion_colors)

\* image_generator.py lines 132-162: the style clause
image_style(emotional_tags, genres) ==
  LET style_elements == all_in(first(genres, 2), image_genre_styles)
                        \o all_in(first(emotional_tags, 2), image_emotion_styles)
  IN IF Len(style_elements) > 0
     THEN <<join(", ", first(style_elements, 2))>>
     ELSE <<>>

\* image_generator.py lines 82-168: prompt_parts joined
image_full_prompt(a) ==
  LET energy_level == or_str(a.energy_level, "medium")
      movement_quality == or_str(a.movement_quality, "")
  IN join(". ",
       <<image_core(a.emotional_tags, a.mood_text, or_list(a.visual_imagery))>>
       \o (IF energy_level \in DOMAIN image_energy_qualities
           THEN <<image_energy_qualities[energy_level]>> ELSE <<>>)
       \o (IF movement_quality # "" THEN <<"with " \o movement_quality>> ELSE <<>>)
       \o image_colors(a.emotional_tags, or_list(a.color_palette))
       \o image_style(a.emotional_tags, a.genres)
       \o <<"digital art, masterpiece quality, highly detailed, "
            \o "artistic composition, no text or words">>)

\* image_generator.py lines 72-174
create_image_prompt(a) ==
  LET full_prompt == image_full_prompt(a)
  IN IF Len(full_prompt) > ImageLimit
     THEN first(full_prompt, ImageLimit) \o "..."
     ELSE full_prompt

\* video_generator.py lines 139-143
video_energy_movements ==
  [low |-> "slow, gentle, flowing camera movements with peaceful transitions",
   medium |-> "steady, rhythmic pacing with smooth camera work",
   high |-> "dynamic, energetic movement with quick cuts and flowing motion"]

\* video_generator.py lines 157-165
video_emotion_colors ==
  [graceful |-> "elegant gold and soft white tones with warm lighting",
   triumphant |-> "victory gold and electric blue with dramatic lighting",
   flowing |-> "fluid blues and silvers with ethereal lighting",
   energetic |-> "vibrant oranges and electric colors with dynamic lighting",
   calm |-> "soft blues and pearl whites with gentle, diffused lighting",
   confident |-> "bold golds and deep blues with strong, directional lighting",
   peaceful |-> "gentle greens and soft whites with natural lighting"]

\* video_generator.py lines 173-181
video_genre_styles ==
  [electronic |-> "futuristic, digital aesthetic with geometric patterns and neon accents",
   pop |-> "vibrant, contemporary style with bold visual elements",
   folk |-> "organic, natural textures with earthy, hand-crafted feel",
   ambient |-> "atmospheric, ethereal with abstract flowing elements",
   rock |-> "dramatic, high contrast with powerful visual composition",
   classical |-> "elegant, refined with timeless, sophisticated visuals",
   jazz |-> "smooth, sophisticated with warm, moody atmosphere"]

\* video_generator.py lines 126-136: the core concept
video_core(emotional_tags, text, visual_imagery) ==
  IF Len(visual_imagery) > 0 /\ Truthy(text)
  THEN IF Len(text.s) < VideoMoodTextMax
       THEN "Cinematic video showing " \o join(", ", first(visual_imagery, 2))
            \o ", embodying the feeling of '" \o text.s \o "'"
       ELSE "Cinematic video featuring " \o join(", ", first(visual_imagery, 2))
  ELSE IF Truthy(text) /\ Len(text.s) < VideoMoodTextMax
  THEN "Abstract visual representation of '" \o text.s \o "' in motion"
  ELSE "Flowing cinematic video expressing " \o join(", ", first(emotional_tags, 2))
       \o " emotions"

\* video_generator.py lines 152-170: the colour clause
video_colors(emotional_tags, color_palette) ==
  IF Len(color_palette) > 0
  THEN <<"with " \o join(", ", first(color_palette, 3))
         \o " color scheme and complementary lighting">>
  ELSE first_in(first(emotional_tags, 2), video_emotion_colors)

\* video_generator.py lines 124-193: prompt_parts joined
video_full_prompt(a) ==
  LET energy_level == or_str(a.energy_level, "medium")
      movement_quality == or_str(a.movement_quality, "")
  IN join(". ",
       <<video_core(a.emotional_tags, a.mood_text, or_list(a.visual_imagery))>>
       \o (IF energy_level \in DOMAIN video_energy_movements
           THEN <<video_energy_movements[energy_level]>> ELSE <<>>)
       \o (IF movement_quality # ""
           THEN <<"featuring " \o movement_quality \o " throughout the sequence">>
           ELSE <<>>)
       \o video_colors(a.emotional_tags, or_list(a.color_palette))
       \o first_in(first(a.genres, 2), video_genre_styles)
       \o <<"high quality cinematic video, 8 seconds duration, smooth motion, "
            \o "professional cinematography",
            "no text overlays, pure visual storytelling">>)

\* video_generator.py lines 106-199
create_video_prompt(a) ==
  LET full_prompt == video_full_prompt(a)
  IN IF Len(full_prompt) > VideoLimit
     THEN first(full_prompt, VideoLimit) \o "..."
     ELSE full_prompt

\* the text s repeated n times
RECURSIVE repeat(_, _)
repeat(s, n) == IF n = 0 THEN "" ELSE s \o repeat(s, n - 1)

\* the arguments the composers are called with
PromptTags ==
  {<<"calm", "peaceful">>, <<"wistful", "hopeful", "calm">>,
   <<"graceful", "triumphant", "energetic">>, <<"contemplative", "mixed">>}
PromptGenres == {<<"ambient", "folk">>, <<"indie", "jazz", "pop">>, <<"electronic">>}
PromptMoodTexts ==
  {Null, Str(""), Str("calm morning by the sea"),
   Str("I finally crossed the finish line and I am on top of the world"),
   Str("after a long week of rain the sun came out and everything feels "
       \o "light and possible again")}
PromptImagery ==
  {Null, List(<<"mist", "dawn light", "floating", "open sea">>),
   List(<<repeat("endless rolling fog ", MaxRepeat)>>)}
PromptMovement ==
  {Null, Str("weightless drifting"), Str(repeat("slowly turning ", MaxRepeat))}
PromptPalette ==
  {Null, List(<<"pearl gray", "soft gold", "misty white", "rose">>)}
PromptEnergy == {Null, Str("low"), Str("extreme")}

PromptArgs ==
  [emotional_tags : PromptTags, genres : PromptGenres, mood_text : PromptMoodTexts,
   visual_imagery : PromptImagery, movement_quality : PromptMovement,
   color_palette : PromptPalette, energy_level : PromptEnergy]

InitPrompt ==
  /\ prompt_args \in PromptArgs
  /\ image_prompt = Null
  /\ video_prompt = Null

\* image_generator.py line 31: generate_mood_image composes its prompt
compose_image_prompt ==
  /\ image_prompt = Null
  /\ image_prompt' = Str(create_image_prompt(prompt_args))
  /\ UNCHANGED <<prompt_args, video_prompt>>
  /\ UNCHANGED outsidePrompt

\* video_generator.py line 56: generate_mood_video composes its prompt
compose_video_prompt ==
  /\ video_prompt = Null
  /\ video_prompt' = Str(create_video_prompt(prompt_args))
  /\ UNCHANGED <<prompt_args, image_prompt>>
  /\ UNCHANGED outsidePrompt

NextPrompt ==
  \/ compose_image_prompt
  \/ compose_video_prompt

-----------------------------------------------------------------------------
(* image_generator.py: generate_mood_image.  The image endpoint and the    *)
(* download are the environment; image_calls records the calls made to     *)
(* them, in order.                                                         *)

Base64Alphabet ==
  "ABCDEFGHIJKLMNOPQRSTUVWXYZabcdefghijklmnopqrstuvwxyz0123456789+/"

b64_char(n) == SubSeq(Base64Alphabet, n + 1, n + 1)

\* base64.b64encode(content).decode('utf-8'), content a sequence of bytes
RECURSIVE b64encode(_)
b64encode(content) ==
  IF Len(content) = 0 THEN ""
  ELSE IF Len(content) = 1
  THEN b64_char(content[1] \div 4) \o b64_char((content[1] % 4) * 16) \o "=="
  ELSE IF Len(content) = 2
  THEN b64_char(content[1] \div 4)
       \o b64_char((content[1] % 4) * 16 + content[2] \div 16)
       \o b64_char((content[2] % 16) * 4) \o "="
  ELSE b64_char(content[1] \div 4)
       \o b64_char((content[1] % 4) * 16 + content[2] \div 16)
       \o b64_char((content[2] % 16) * 4 + content[3] \div 64)
       \o b64_char(content[3] % 64)
       \o b64encode(SubSeq(content, 4, Len(content)))

\* the arguments generate_mood_image is called with
ImageArgs ==
  {a \in PromptArgs :
     /\ a.emotional_tags = <<"calm", "peaceful">>
     /\ a.genres = <<"ambient", "folk">>
     /\ a.mood_text \in {Null, Str("calm morning by the sea")}
     /\ a.movement_quality = Null
     /\ a.color_palette = Null
     /\ a.energy_level \in {Null, Str("low")}}

\* what client.images.generate does: it raises, or answers with a list of
\* images, each with a url
ImageUrl == "https://images.example/mood.png"
GenerateOutcomes ==
  {[raises |-> TRUE, data |-> <<>>], [raises |-> FALSE, data |-> <<>>],
   [raises |-> FALSE, data |-> <<ImageUrl>>]}

\* what requests.get does: it raises, or answers with a status and a body
ImageContents == {<<>>, <<77>>, <<77, 97>>, <<137, 80, 78, 71, 13, 10, 26>>}
DownloadOutcomes ==
  {[raises |-> TRUE, status_code |-> 0, content |-> <<>>]}
  \cup [raises : {FALSE}, status_code : {200, 404, 500}, content : ImageContents]

InitImage ==
  /\ image_args \in ImageArgs
  /\ image_api_key \in ApiKeys
  /\ image_pc = "line25"
  /\ image_calls = <<>>
  /\ image_url = ""
  /\ image_result = NotCalled

\* lines 25-30
generate_image_getenv ==
  /\ image_pc = "line25"
  /\ IF ~Truthy(image_api_key)
     THEN /\ image_result' = Returned(Null)
          /\ image_pc' = "done"
     ELSE /\ image_pc' = "line33"
          /\ UNCHANGED image_result
  /\ UNCHANGED <<image_args, image_api_key, image_calls, image_url>>
  /\ UNCHANGED outsideImage

\* lines 33-51, and 67-69 when the request or reading its answer raises
generate_image_request ==
  /\ image_pc = "line33"
  /\ \E outcome \in GenerateOutcomes :
       /\ image_calls' = Append(image_calls,
            [api |-> "images.generate", model |-> "dall-e-3",
             prompt |-> create_image_prompt(image_args), size |-> "1024x1024",
             quality |-> "standard", n |-> 1, ok |-> ~outcome.raises])
       /\ IF outcome.raises \/ Len(outcome.data) = 0
          THEN /\ image_result' = Returned(Null)
               /\ image_pc' = "done"
               /\ UNCHANGED image_url
          ELSE /\ image_url' = outcome.data[1]
               /\ image_pc' = "line54"
               /\ UNCHANGED image_result
  /\ UNCHANGED <<image_args, image_api_key>>
  /\ UNCHANGED outsideImage

\* a download whose status is not looked at
generate_image_download_any_status ==
  /\ image_pc = "line54"
  /\ \E outcome \in DownloadOutcomes :
       /\ image_calls' = Append(image_calls,
            [api |-> "requests.get", url |-> image_url, ok |-> ~outcome.raises,
             status_code |-> outcome.status_code, content |-> outcome.content])
       /\ image_result' = IF outcome.raises THEN Returned(Null)
                          ELSE Returned(Str(b64encode(outcome.content)))
  /\ image_pc' = "done"
  /\ UNCHANGED <<image_args, image_api_key, image_url>>
  /\ UNCHANGED outsideImage

\* lines 54-63, and 67-69 when the download raises
generate_image_download ==
  /\ image_pc = "line54"
  /\ \E outcome \in DownloadOutcomes :
       /\ image_calls' = Append(image_calls,
            [api |-> "requests.get", url |-> image_url, ok |-> ~outcome.raises,
             status_code |-> outcome.status_code, content |-> outcome.content])
       /\ image_result' =
            IF ~outcome.raises /\ outcome.status_code = 200
            THEN Returned(Str(b64encode(outcome.content)))
            ELSE Returned(Null)
  /\ image_pc' = "done"
  /\ UNCHANGED <<image_args, image_api_key, image_url>>
  /\ UNCHANGED outsideImage

NextImage ==
  \/ generate_image_getenv
  \/ generate_image_request
  \/ generate_image_download

-----------------------------------------------------------------------------
(* video_generator.py: generate_mood_video, a placeholder that sends no    *)
(* generation request.                                                     *)

\* lines 9-20: what the name genai is bound to after the imports
GenaiModules == {"google.genai", "google.generativeai", "None"}

\* line 71: genai.configure exists in google.generativeai only; on the new
\* package and on None the attribute lookup raises AttributeError
configure_raises(module) == module # "google.generativeai"

\* the arguments generate_mood_video is called with
VideoArgs == ImageArgs
VideoDurations == {8, 5}
Timestamps == {"2025-06-01T09:30:00", "2025-06-01T09:30:01"}

InitVideo ==
  /\ video_args \in VideoArgs
  /\ video_duration \in VideoDurations
  /\ google_api_key \in ApiKeys
  /\ genai \in GenaiModules
  /\ video_pc = "line51"
  /\ video_result = NotCalled

\* lines 51-54
generate_video_getenv ==
  /\ video_pc = "line51"
  /\ IF ~Truthy(google_api_key)
     THEN /\ video_result' = Returned(Null)
          /\ video_pc' = "done"
     ELSE /\ video_pc' = "line56"
          /\ UNCHANGED video_result
  /\ UNCHANGED <<video_args, video_duration, google_api_key, genai>>
  /\ UNCHANGED outsideVideo

\* lines 84-99: the placeholder response
placeholder_response(a, duration, timestamp) ==
  [video_url |-> Null,
   video_data |-> Null,
   prompt |-> create_video_prompt(a),
   error |-> "Video generation requires updated Google AI SDK",
   metadata |->
     [emotional_tags |-> a.emotional_tags, genres |-> a.genres,
      mood_text |-> a.mood_text, visual_imagery |-> a.visual_imagery,
      color_palette |-> a.color_palette, energy_level |-> a.energy_level,
      duration |-> duration, timestamp |-> timestamp,
      status |-> "awaiting_sdk_update"]]

\* a placeholder that lets the exception of genai.configure through
generate_video_placeholder_raising ==
  /\ video_pc = "line56"
  /\ IF configure_raises(genai)
     THEN video_result' = Raised("AttributeError", "configure")
     ELSE \E timestamp \in Timestamps :
            video_result' =
              Returned(placeholder_response(video_args, video_duration, timestamp))
  /\ video_pc' = "done"
  /\ UNCHANGED <<video_args, video_duration, google_api_key, genai>>
  /\ UNCHANGED outsideVideo

\* lines 56-103
generate_video_placeholder ==
  /\ video_pc = "line56"
  /\ IF configure_raises(genai)
     THEN video_result' = Returned(Null)
     ELSE \E timestamp \in Timestamps :
            video_result' =
              Returned(placeholder_response(video_args, video_duration, timestamp))
  /\ video_pc' = "done"
  /\ UNCHANGED <<video_args, video_duration, google_api_key, genai>>
  /\ UNCHANGED outsideVideo

NextVideo ==
  \/ generate_video_getenv
  \/ generate_video_placeholder

-----------------------------------------------------------------------------
(* video_generator.py: poll_video_generation_new_api, poll_video_generation *)
(* and download_video_data.  The clock, the operations endpoint and the     *)
(* download are the environment.                                            *)

\* the default timeout of lines 202 and 252, the sleep of lines 241 and 280
PollTimeout == 360
PollInterval == 10

\* what time.sleep(10) takes beyond the ten seconds
SleepOverruns == {0, 1}

VideoUrl == "https://video.example/mood.mp4"

\* the operation (the response, for the legacy function): still running,
\* done with no usable video, done with a video uri
PollOperations ==
  {[done |-> FALSE, uri |-> ""], [done |-> TRUE, uri |-> ""],
   [done |-> TRUE, uri |-> VideoUrl]}

PollFunctions == {"poll_video_generation_new_api", "poll_video_generation"}

NoDownload == [raises |-> FALSE, status_code |-> 0, content |-> <<>>]

InitPoll ==
  /\ poll_fn \in PollFunctions
  /\ poll_operation \in PollOperations
  /\ poll_pc = "while"
  /\ poll_elapsed = 0
  /\ poll_checks = 0
  /\ poll_refreshes = 0
  /\ poll_download = NoDownload
  /\ poll_result = NotCalled

\* a loop test that lets the loop run at the timeout itself
poll_check_inclusive ==
  /\ poll_pc = "while"
  /\ poll_elapsed <= PollTimeout
  /\ poll_checks' = poll_checks + 1
  /\ poll_pc' = IF poll_operation.done /\ poll_operation.uri # "" THEN "download"
                ELSE IF poll_fn = "poll_video_generation_new_api" THEN "refresh"
                ELSE "sleep"
  /\ UNCHANGED <<poll_fn, poll_operation, poll_elapsed, poll_refreshes,
                 poll_download, poll_result>>
  /\ UNCHANGED outsidePoll

\* lines 216-229 and 265-270: the loop test passes and the status is looked at
poll_check ==
  /\ poll_pc = "while"
  /\ poll_elapsed < PollTimeout
  /\ poll_checks' = poll_checks + 1
  /\ poll_pc' = IF poll_operation.done /\ poll_operation.uri # "" THEN "download"
                ELSE IF poll_fn = "poll_video_generation_new_api" THEN "refresh"
                ELSE "sleep"
  /\ UNCHANGED <<poll_fn, poll_operation, poll_elapsed, poll_refreshes,
                 poll_download, poll_result>>
  /\ UNCHANGED outsidePoll

\* lines 291-310: download_video_data
download_video_data(outcome) ==
  IF ~outcome.raises /\ outcome.status_code = 200
  THEN Str(b64encode(outcome.content))
  ELSE Null

\* lines 230-235 and 271-277
poll_return_video ==
  /\ poll_pc = "download"
  /\ \E outcome \in DownloadOutcomes :
       /\ poll_download' = outcome
       /\ poll_result' = Returned([url |-> poll_operation.uri,
                                   data |-> download_video_data(outcome)])
  /\ poll_pc' = "done"
  /\ UNCHANGED <<poll_fn, poll_operation, poll_elapsed, poll_checks, poll_refreshes>>
  /\ UNCHANGED outsidePoll

\* line 237, and 243-244 when client.operations.get raises
poll_refresh ==
  /\ poll_pc = "refresh"
  /\ poll_refreshes' = poll_refreshes + 1
  /\ \/ UNCHANGED poll_operation
     \/ \E operation \in PollOperations : poll_operation' = operation
  /\ poll_pc' = "sleep"
  /\ UNCHANGED <<poll_fn, poll_elapsed, poll_checks, poll_download, poll_result>>
  /\ UNCHANGED outsidePoll

\* lines 241, 245 and 280: time.sleep(10)
poll_sleep ==
  /\ poll_pc = "sleep"
  /\ \E overrun \in SleepOverruns :
       poll_elapsed' = poll_elapsed + PollInterval + overrun
  /\ poll_pc' = "while"
  /\ UNCHANGED <<poll_fn, poll_operation, poll_checks, poll_refreshes,
                 poll_download, poll_result>>
  /\ UNCHANGED outsidePoll

\* lines 247-249 and 286-288: the loop test fails
poll_timeout ==
  /\ poll_pc = "while"
  /\ poll_elapsed >= PollTimeout
  /\ poll_result' = Returned(Null)
  /\ poll_pc' = "done"
  /\ UNCHANGED <<poll_fn, poll_operation, poll_elapsed, poll_checks, poll_refreshes,
                 poll_download>>
  /\ UNCHANGED outsidePoll

NextPoll ==
  \/ poll_check
  \/ poll_return_video
  \/ poll_refresh
  \/ poll_sleep
  \/ poll_timeout

-----------------------------------------------------------------------------
(* spotify_client.py, search_tracks lines 45-97 on their own: the query     *)
(* batch and the count asked of the catalog for each query, for batches of  *)
(* any size.                                                                *)

PlanGenres ==
  {<<>>, <<"ambient">>, <<"ambient", "folk">>, <<"pop", "rock", "jazz">>}
PlanKeywords ==
  {Null, List(<<>>), List(<<"victory">>),
   List(<<"running", "victory", "momentum", "grace">>)}
PlanEnergy == {Null, Str(""), Str("low"), Str("high"), Str("extreme")}

InitPlan ==
  /\ plan_args \in [genres : PlanGenres, search_keywords : PlanKeywords,
                    energy_level : PlanEnergy, limit : SearchLimits]
  /\ plan_pc = "line45"
  /\ plan_queries = <<>>
  /\ plan_quotas = <<>>

\* lines 45-97: search_queries, and tracks_needed for each of its queries
search_tracks_plan ==
  /\ plan_pc = "line45"
  /\ LET batch == build_search_queries(plan_args.genres, plan_args.search_keywords,
                                       plan_args.energy_level)
     IN /\ plan_queries' = batch
        /\ plan_quotas' =
             [i \in 1..Len(batch) |->
                tracks_needed(batch[i].weight, total_weight(batch), plan_args.limit)]
  /\ plan_pc' = "done"
  /\ UNCHANGED plan_args
  /\ UNCHANGED outsidePlan

NextPlan == search_tracks_plan

-----------------------------------------------------------------------------
(* app.py: main's handling of the submitted form and create_mood_canvas.    *)
(* analyze_mood runs as the actions of its own section, called at line 97;  *)
(* the methods of SpotifyClient and generate_mood_image are calls with the  *)
(* outcomes their sections give them.                                       *)

NoMoodData == [source |-> "none", value |-> <<>>]

\* the calls create_mood_canvas has made so far
called(fn) == \E i \in 1..Len(app_calls) : app_calls[i] = fn

\* what search_tracks and create_playlist answer to the pipeline
AppTrackUris == {<<>>, <<"spotify:track:A", "spotify:track:B">>}
AppPlaylistResults ==
  {Null, [url |-> "https://open.spotify.com/playlist/pl1", id |-> "pl1",
          embed_url |-> "https://open.spotify.com/embed/playlist/pl1"]}
AppImageData == {Null, Str("iVBORw0KGgo=")}

InitApp ==
  /\ submitted \in BOOLEAN
  /\ spotify_credentials \in BOOLEAN
  /\ app_pc = "line70"
  /\ app_calls = <<>>
  /\ app_mood_data = NoMoodData
  /\ track_uris = <<>>
  /\ playlist_result = Null
  /\ image_data = Null
  \* the text of the form and the environment analyze_mood will see
  /\ mood_text \in MoodTexts
  /\ openai_api_key \in ApiKeys
  /\ analyze_pc = "idle"
  /\ getenv_calls = 0
  /\ completion_calls = 0
  /\ completion = NoCompletion
  /\ caught = ""
  /\ analyze_result = NotCalled

\* main, lines 70-74: "if submitted and mood_text"
main_submitted ==
  /\ app_pc = "line70"
  /\ app_pc' = IF submitted /\ mood_text # "" THEN "line81" ELSE "done"
  /\ UNCHANGED <<submitted, spotify_credentials, app_calls, app_mood_data, track_uris,
                 playlist_result, image_data>>
  /\ UNCHANGED outsideApp

\* lines 81-83, and initialize_spotify_client, lines 24-34
initialize_spotify_client ==
  /\ app_pc = "line81"
  /\ app_calls' = Append(app_calls, "initialize_spotify_client")
  /\ app_pc' = IF spotify_credentials THEN "line86" ELSE "done"
  /\ UNCHANGED <<submitted, spotify_credentials, app_mood_data, track_uris,
                 playlist_result, image_data>>
  /\ UNCHANGED outsideApp

\* lines 86-92
app_authenticate ==
  /\ app_pc = "line86"
  /\ app_calls' = Append(app_calls, "authenticate")
  /\ \E ok \in BOOLEAN : app_pc' = IF ok THEN "line97" ELSE "done"
  /\ UNCHANGED <<submitted, spotify_credentials, app_mood_data, track_uris,
                 playlist_result, image_data>>
  /\ UNCHANGED outsideApp

\* line 97: analyze_mood(mood_text) is entered
app_analyze_mood ==
  /\ app_pc = "line97"
  /\ analyze_pc = "idle"
  /\ app_calls' = Append(app_calls, "analyze_mood")
  /\ analyze_pc' = "line20"
  /\ UNCHANGED <<submitted, spotify_credentials, app_pc, app_mood_data, track_uris,
                 playlist_result, image_data>>
  /\ UNCHANGED <<mood_text, openai_api_key, getenv_calls, completion_calls,
                 completion, caught, analyze_result>>
  /\ UNCHANGED <<clientVars, promptVars, imageVars, videoVars, pollVars, planVars>>

\* lines 97-103: analyze_mood returned, or raised and "except Exception"
\* calls create_fallback_mood_analysis(mood_text)
app_analyze_returned ==
  /\ app_pc = "line97"
  /\ analyze_pc = "done"
  /\ IF analyze_result.kind = "returned"
     THEN /\ app_mood_data' = [source |-> "analyze_mood", value |-> analyze_result.value]
          /\ UNCHANGED app_calls
     ELSE /\ app_mood_data' = [source |-> "create_fallback_mood_analysis",
                           value |-> create_fallback_mood_analysis(mood_text)]
          /\ app_calls' = Append(app_calls, "create_fallback_mood_analysis")
  /\ app_pc' = "line122"
  /\ UNCHANGED <<submitted, spotify_credentials, track_uris, playlist_result,
                 image_data>>
  /\ UNCHANGED outsideApp

\* lines 122-134: search_tracks(genres=mood_data["genres"], limit=15, ...)
app_search_tracks ==
  /\ app_pc = "line122"
  /\ app_calls' = Append(app_calls, "search_tracks")
  /\ \E uris \in AppTrackUris :
       /\ track_uris' = uris
       /\ app_pc' = IF Len(uris) = 0 THEN "done" ELSE "line137"
  /\ UNCHANGED <<submitted, spotify_credentials, app_mood_data, playlist_result,
                 image_data>>
  /\ UNCHANGED outsideApp

\* lines 137-145 and 162-163
app_create_playlist ==
  /\ app_pc = "line137"
  /\ app_calls' = Append(app_calls, "create_playlist")
  /\ \E result \in AppPlaylistResults :
       /\ playlist_result' = result
       /\ app_pc' = IF result = Null THEN "done" ELSE "line154"
  /\ UNCHANGED <<submitted, spotify_credentials, app_mood_data, track_uris, image_data>>
  /\ UNCHANGED outsideApp

\* line 154 and generate_and_display_image, lines 168-180
generate_and_display_image ==
  /\ app_pc = "line154"
  /\ app_calls' = Append(app_calls, "generate_mood_image")
  /\ image_data' \in AppImageData
  /\ app_pc' = "done"
  /\ UNCHANGED <<submitted, spotify_credentials, app_mood_data, track_uris,
                 playlist_result>>
  /\ UNCHANGED outsideApp

NextApp ==
  \/ main_submitted
  \/ initialize_spotify_client
  \/ app_authenticate
  \/ app_analyze_mood
  \/ analyze_check_text
  \/ analyze_getenv
  \/ analyze_request
  \/ analyze_extract
  \/ analyze_fallback
  \/ app_analyze_returned
  \/ app_search_tracks
  \/ app_create_playlist
  \/ generate_and_display_image

-----------------------------------------------------------------------------
(* Specifications: one per component, the other components at rest *)

AnalyzeAtRest ==
  /\ mood_text = ""
  /\ openai_api_key = Null
  /\ analyze_pc = "idle"
  /\ getenv_calls = 0
  /\ completion_calls = 0
  /\ completion = NoCompletion
  /\ caught = ""
  /\ analyze_result = NotCalled

PromptAtRest ==
  /\ prompt_args = [emotional_tags |-> <<>>, genres |-> <<>>, mood_text |-> Null,
                    visual_imagery |-> Null, movement_quality |-> Null,
                    color_palette |-> Null, energy_level |-> Null]
  /\ image_prompt = Null
  /\ video_prompt = Null

ImageAtRest ==
  /\ image_args = [emotional_tags |-> <<>>, genres |-> <<>>, mood_text |-> Null,
                   visual_imagery |-> Null, movement_quality |-> Null,
                   color_palette |-> Null, energy_level |-> Null]
  /\ image_api_key = Null
  /\ image_pc = "idle"
  /\ image_calls = <<>>
  /\ image_url = ""
  /\ image_result = NotCalled

VideoAtRest ==
  /\ video_args = [emotional_tags |-> <<>>, genres |-> <<>>, mood_text |-> Null,
                   visual_imagery |-> Null, movement_quality |-> Null,
                   color_palette |-> Null, energy_level |-> Null]
  /\ video_duration = 8
  /\ google_api_key = Null
  /\ genai = "None"
  /\ video_pc = "idle"
  /\ video_result = NotCalled

PollAtRest ==
  /\ poll_fn = "poll_video_generation"
  /\ poll_operation = [done |-> FALSE, uri |-> ""]
  /\ poll_pc = "idle"
  /\ poll_elapsed = 0
  /\ poll_checks = 0
  /\ poll_refreshes = 0
  /\ poll_download = NoDownload
  /\ poll_result = NotCalled

PlanAtRest ==
  /\ plan_args = [genres |-> <<>>, search_keywords |-> Null, energy_level |-> Null,
                  limit |-> 0]
  /\ plan_pc = "idle"
  /\ plan_queries = <<>>
  /\ plan_quotas = <<>>

AppAtRest ==
  /\ submitted = FALSE
  /\ spotify_credentials = FALSE
  /\ app_pc = "idle"
  /\ app_calls = <<>>
  /\ app_mood_data = NoMoodData
  /\ track_uris = <<>>
  /\ playlist_result = Null
  /\ image_data = Null

\* a run of analyze_mood
InitSpecAnalyze ==
  /\ InitAnalyze
  /\ InitClient
  /\ PromptAtRest
  /\ ImageAtRest
  /\ VideoAtRest
  /\ PollAtRest
  /\ PlanAtRest
  /\ AppAtRest
SpecAnalyze == InitSpecAnalyze /\ [][NextAnalyze]_vars

\* the operations of one SpotifyClient, one after the other
InitSpecClient ==
  /\ AnalyzeAtRest
  /\ InitClient
  /\ PromptAtRest
  /\ ImageAtRest
  /\ VideoAtRest
  /\ PollAtRest
  /\ PlanAtRest
  /\ AppAtRest
SpecClient == InitSpecClient /\ [][NextClient]_vars

\* the two composers called with the same arguments
InitSpecPrompt ==
  /\ AnalyzeAtRest
  /\ InitClient
  /\ InitPrompt
  /\ ImageAtRest
  /\ VideoAtRest
  /\ PollAtRest
  /\ PlanAtRest
  /\ AppAtRest
SpecPrompt == InitSpecPrompt /\ [][NextPrompt]_vars

\* a run of generate_mood_image
InitSpecImage ==
  /\ AnalyzeAtRest
  /\ InitClient
  /\ PromptAtRest
  /\ InitImage
  /\ VideoAtRest
  /\ PollAtRest
  /\ PlanAtRest
  /\ AppAtRest
SpecImage == InitSpecImage /\ [][NextImage]_vars

\* a run of generate_mood_video
InitSpecVideo ==
  /\ AnalyzeAtRest
  /\ InitClient
  /\ PromptAtRest
  /\ ImageAtRest
  /\ InitVideo
  /\ PollAtRest
  /\ PlanAtRest
  /\ AppAtRest
SpecVideo == InitSpecVideo /\ [][NextVideo]_vars

\* a run of one of the polling functions; the function runs on, step after
\* step, until it returns
InitSpecPoll ==
  /\ AnalyzeAtRest
  /\ InitClient
  /\ PromptAtRest
  /\ ImageAtRest
  /\ VideoAtRest
  /\ InitPoll
  /\ PlanAtRest
  /\ AppAtRest
SpecPoll == InitSpecPoll /\ [][NextPoll]_vars /\ WF_vars(NextPoll)

\* the batch and the quotas of one call of search_tracks
InitSpecPlan ==
  /\ AnalyzeAtRest
  /\ InitClient
  /\ PromptAtRest
  /\ ImageAtRest
  /\ VideoAtRest
  /\ PollAtRest
  /\ InitPlan
  /\ AppAtRest
SpecPlan == InitSpecPlan /\ [][NextPlan]_vars

\* one submitted form, with analyze_mood run by the pipeline
InitSpecApp ==
  /\ InitClient
  /\ PromptAtRest
  /\ ImageAtRest
  /\ VideoAtRest
  /\ PollAtRest
  /\ PlanAtRest
  /\ InitApp
SpecApp == InitSpecApp /\ [][NextApp]_vars

-----------------------------------------------------------------------------
(* Properties of analyze_mood *)

\* the text is empty or consists of whitespace only
IsBlank(text) == \A i \in 1..Len(text) : SubSeq(text, i, i) \in Whitespace

\* a credential is available: the variable is set and not empty
KeyAvailable == openai_api_key.t = "str" /\ openai_api_key.s # ""

\* C1: for every mood text that is not blank, with a credential, whatever the
\* language model answers or however the request fails, analyze_mood returns
\* a profile whose emotional_tags and genres are non-empty lists and whose
\* playlist_name has at most 50 characters.
C1_ProfileUsable ==
  (analyze_pc = "done" /\ ~IsBlank(mood_text) /\ KeyAvailable) =>
    /\ analyze_result.kind = "returned"
    /\ analyze_result.value["emotional_tags"].t = "list"
    /\ Len(analyze_result.value["emotional_tags"].l) >= 1
    /\ analyze_result.value["genres"].t = "list"
    /\ Len(analyze_result.value["genres"].l) >= 1
    /\ analyze_result.value["playlist_name"].t = "str"
    /\ Len(analyze_result.value["playlist_name"].s) <= 50

\* the model answered with a playlist name of more than 50 characters and the
\* returned profile carries exactly 50 of them
C1_Witness ==
  /\ analyze_pc = "done"
  /\ completion.content = Str(DocSprintText)
  /\ analyze_result.kind = "returned"
  /\ Len(analyze_result.value["playlist_name"].s) = 50
  /\ Len(analyze_result.value["emotional_tags"].l) = 3

\* C2: with an empty or whitespace-only mood text analyze_mood raises the
\* empty-text ValueError (InvalidInputError) before the credential is looked
\* up or any request is sent, and no fallback profile is produced.
C2_BlankTextRejectedFirst ==
  IsBlank(mood_text) =>
    /\ getenv_calls = 0
    /\ completion_calls = 0
    /\ caught = ""
    /\ analyze_pc \in {"line20", "done"}
    /\ analyze_pc = "done" =>
         analyze_result = Raised("ValueError", "Mood text cannot be empty")

C2_Witness ==
  /\ analyze_pc = "done"
  /\ mood_text = " \n\t"
  /\ KeyAvailable
  /\ analyze_result.kind = "raised"
  /\ getenv_calls = 0

\* C3: with a valid mood text and no credential analyze_mood raises the
\* missing-key ValueError (ConfigurationError) before any request is sent; it
\* neither contacts the language model nor returns a fallback profile.
C3_MissingKeyFailsFast ==
  (~IsBlank(mood_text) /\ ~KeyAvailable) =>
    /\ completion_calls = 0
    /\ caught = ""
    /\ analyze_pc \in {"line20", "line23", "done"}
    /\ analyze_pc = "done" =>
         analyze_result =
           Raised("ValueError", "OpenAI API key not found in environment variables")

C3_Witness ==
  /\ analyze_pc = "done"
  /\ mood_text = "calm"
  /\ openai_api_key = Str("")
  /\ analyze_result.kind = "raised"
  /\ getenv_calls = 1
  /\ completion_calls = 0

\* the answers that are not JSON (the last is a bare fence around a valid
\* document) and those that are JSON and fail validation or normalization
NotJsonResponses ==
  {"Sorry, I cannot help with that.", "",
   Fence \o "\n" \o DocMinimalText \o "\n" \o Fence}

InvalidJsonResponses ==
  {DocNoGenresText, DocEmptyTagsText, DocTagsStringText, DocBlankNameText,
   DocNameNumberText, DocTagNumberText, DocEnergyNullText, DocListText,
   DocStringText, DocNumberText}

\* the request was sent and failed: a transport error, a completion without
\* content, or a content that is not JSON or not valid
RemoteFailed ==
  /\ completion_calls >= 1
  /\ \/ completion.raises
     \/ completion.content.t # "str"
     \/ completion.content.s \in NotJsonResponses \cup InvalidJsonResponses

Triple(tags, genres, name) ==
  [emotional_tags |-> List(<<Str(tags[1]), Str(tags[2])>>),
   genres |-> List(<<Str(genres[1]), Str(genres[2])>>),
   playlist_name |-> Str(name)]

Mentions(text, words) == \E w \in words : contains(lower(text), w)

\* the canned triple of the first bucket the text matches, in the order
\* calm, happy, sad, else
BucketTriple(text) ==
  IF Mentions(text, {"calm", "peaceful", "relaxed", "serene"})
  THEN Triple(<<"calm", "peaceful">>, <<"ambient", "folk">>, "Peaceful Moments")
  ELSE IF Mentions(text, {"happy", "excited", "energetic", "pumped"})
  THEN Triple(<<"happy", "energetic">>, <<"pop", "electronic">>, "Energy Boost")
  ELSE IF Mentions(text, {"sad", "melancholy", "down", "blue"})
  THEN Triple(<<"melancholic", "reflective">>, <<"folk", "indie">>, "Reflection Time")
  ELSE Triple(<<"contemplative", "mixed">>, <<"indie", "alternative">>, "Mixed Feelings")

\* C4: when the language-model call fails in any way analyze_mood does not
\* raise: it returns exactly the canned triple of the first bucket the mood
\* text matches (calm before happy before sad before the rest).
C4_FailureGivesFallbackTriple ==
  (analyze_pc = "done" /\ RemoteFailed) =>
    analyze_result = Returned(BucketTriple(mood_text))

\* a text naming both calm and happy, an answer that is not JSON: the calm
\* triple is returned
C4_Witness ==
  /\ analyze_pc = "done"
  /\ mood_text = "I feel Calm and happy"
  /\ completion.content = Str("Sorry, I cannot help with that.")
  /\ analyze_result.kind = "returned"
  /\ analyze_result.value["playlist_name"] = Str("Peaceful Moments")

\* C5: in a run of analyze_mood the completion endpoint is called at most
\* once: once an exception is caught no further request is sent, and the
\* only thing left to run is the fallback.
C5_NoRetry ==
  /\ completion_calls <= 1
  /\ caught # "" => (completion_calls = 1 /\ analyze_pc \in {"line51", "done"})
  /\ (caught # "" /\ analyze_pc = "done") => analyze_result.kind = "returned"

C5_Witness ==
  /\ analyze_pc = "done"
  /\ caught = "APIError"
  /\ completion.raises
  /\ completion_calls = 1
  /\ analyze_result.kind = "returned"

-----------------------------------------------------------------------------
(* Properties of SpotifyClient *)

NotAuthenticatedRaised ==
  /\ client_result.kind = "raised"
  /\ client_result.exc = "Exception"
  /\ client_result.msg = "Not authenticated. Call authenticate() first."

\* search_tracks has returned its list
SearchReturned ==
  client_op.name = "search_tracks" /\ client_result.kind = "returned"

\* search_tracks, called on a client with a session, has ended
SearchEnded ==
  client_op.name = "search_tracks" /\ sp # None /\ client_pc = "idle"

\* the uris of the tracks the catalog returned to the queries of this search
ReturnedUris ==
  UNION {{requests[i].items[j].uri :
            j \in {k \in 1..Len(requests[i].items) : requests[i].items[k].t = "track"}} :
         i \in 1..Len(requests)}

\* the uris of the tracks merged into the pool: of each answer, the tracks
\* that come before the first item whose processing raises
MergedUris ==
  UNION {{requests[i].items[j].uri :
            j \in {k \in 1..Len(requests[i].items) :
                     \A m \in 1..k : ~item_raises(requests[i].items[m])}} :
         i \in 1..Len(requests)}

\* the returned list has min(limit, |U|) tracks of U, no uri twice
ResultDrawnFrom(U) ==
  LET result == client_result.value
  IN /\ Len(result) = Min(client_op.limit, Cardinality(U))
     /\ \A i, j \in 1..Len(result) : i # j => result[i].uri # result[j].uri
     /\ \A i \in 1..Len(result) : result[i].uri \in U

\* C6 as stated: the list search_tracks returns is drawn from all the tracks
\* the executed queries returned.
C6_ResultDrawnFromReturned ==
  SearchEnded => (SearchReturned /\ ResultDrawnFrom(ReturnedUris))

\* C6: for every combination of answers and failures of the queries,
\* search_tracks does not raise and returns exactly min(limit, |U|) tracks
\* with pairwise distinct uri, all of U, where U is the set of uris merged
\* into the pool: the tracks that, in the answer of their query, come before
\* any item whose processing raises.
C6_ResultDrawnFromMerged ==
  SearchEnded => (SearchReturned /\ ResultDrawnFrom(MergedUris))

\* two queries answered with the same track, a limit of 2: one track returned
C6_Witness ==
  /\ SearchReturned
  /\ sp # None
  /\ client_op.limit = 2
  /\ Len(requests) = 2
  /\ requests[1].items = <<TrackA>>
  /\ requests[2].items = <<TrackA>>
  /\ Len(client_result.value) = 1
  /\ client_result.value[1].uri = TrackA.uri

\* C7: on a client on which authenticate was never called search_tracks
\* raises the not-authenticated exception and sends no search request.
C7_SearchBeforeAuthenticate ==
  (client_op.name = "search_tracks" /\ last_authenticate = "none") =>
    /\ NotAuthenticatedRaised
    /\ requests = <<>>
    /\ client_pc = "idle"

C7_Witness ==
  /\ client_op.name = "search_tracks"
  /\ last_authenticate = "none"
  /\ client_op.limit = 2
  /\ client_op.genres = <<"ambient", "folk">>
  /\ NotAuthenticatedRaised
  /\ requests = <<>>

\* the client has no session or no user id
Unauthenticated == sp = None \/ user_id = Null \/ user_id = Str("")

PlaylistResultReturned ==
  /\ client_result.kind = "returned"
  /\ DOMAIN client_result.value = {"url", "id", "embed_url"}

\* create_playlist returned None, its failure outcome
PlaylistCreationFailed ==
  /\ client_pc = "idle"
  /\ client_result.kind = "returned"
  /\ DOMAIN client_result.value = DOMAIN Null
  /\ client_result.value.t = "null"

\* C9: on an authenticated client, once the create or the add-items request
\* has failed create_playlist ends with its failure outcome (None) and sends
\* nothing more; the dict of url, id and embed_url is returned only when
\* every request sent has succeeded.
C9_WriteFailureFailsWhole ==
  (client_op.name = "create_playlist" /\ ~Unauthenticated) =>
    /\ (\E i \in 1..Len(requests) : ~requests[i].ok) =>
         /\ PlaylistCreationFailed
         /\ ~requests[Len(requests)].ok
    /\ PlaylistResultReturned =>
         /\ Len(requests) >= 1
         /\ \A i \in 1..Len(requests) : requests[i].ok

\* the playlist was created, adding the tracks failed: None is returned
C9_Witness ==
  /\ client_op.name = "create_playlist"
  /\ ~Unauthenticated
  /\ Len(requests) = 2
  /\ requests[1].api = "user_playlist_create" /\ requests[1].ok
  /\ requests[2].api = "playlist_add_items" /\ ~requests[2].ok
  /\ playlist.id = "pl1"
  /\ PlaylistCreationFailed

-----------------------------------------------------------------------------
(* Properties of the prompt composers *)

\* C10: the image prompt has at most 900 characters and the video prompt at
\* most 800, the three characters appended on truncation included.
C10_PromptsWithinBudget ==
  /\ image_prompt.t = "str" => Len(image_prompt.s) <= ImageLimit
  /\ video_prompt.t = "str" => Len(video_prompt.s) <= VideoLimit

-----------------------------------------------------------------------------
(* Properties of the media generators *)

ImageCalled(api) == \E i \in 1..Len(image_calls) : image_calls[i].api = api

\* the endpoint answered with an image and its download answered 200
ImageFetched ==
  /\ Len(image_calls) = 2
  /\ image_calls[1].api = "images.generate" /\ image_calls[1].ok
  /\ image_calls[2].api = "requests.get" /\ image_calls[2].ok
  /\ image_calls[2].status_code = 200

\* C11: generate_mood_image never raises.  Without a credential it returns
\* None (its failed outcome) and calls neither the image endpoint nor the
\* download; when the endpoint or the download raises, or the download
\* answers with a status other than 200, it returns None; it returns encoded
\* data only when the endpoint answered and the download answered 200, and
\* the data is then the base64 text of the downloaded body.
C11_ImageFailsSoftly ==
  /\ image_result.kind # "raised"
  /\ ~Truthy(image_api_key) => image_calls = <<>>
  /\ image_pc = "done" =>
       /\ image_result.kind = "returned"
       /\ IF ImageFetched
          THEN image_result.value = Str(b64encode(image_calls[2].content))
          ELSE image_result.value = Null

\* the download answered 404 with a body: None is returned
C11_Witness ==
  /\ image_pc = "done"
  /\ Len(image_calls) = 2
  /\ image_calls[2].ok
  /\ image_calls[2].status_code = 404
  /\ Len(image_calls[2].content) = 2
  /\ image_result = Returned(Null)

\* generate_mood_video returned the pending placeholder: a diagnostic, the
\* composed prompt, no url and no data
PlaceholderReturned ==
  /\ video_result.kind = "returned"
  /\ "metadata" \in DOMAIN video_result.value
  /\ video_result.value.metadata.status = "awaiting_sdk_update"
  /\ video_result.value.error # ""
  /\ video_result.value.video_url = Null
  /\ video_result.value.video_data = Null
  /\ video_result.value.prompt = create_video_prompt(video_args)

\* generate_mood_video returned None
VideoFailed ==
  /\ video_result.kind = "returned"
  /\ DOMAIN video_result.value = DOMAIN Null
  /\ video_result.value.t = "null"

\* C12 as stated: for every input generate_mood_video ends with the pending
\* placeholder and never with the failed outcome.
C12_AlwaysPlaceholder == video_pc = "done" => PlaceholderReturned

\* C12: generate_mood_video never raises.  With a GOOGLE_AI_API_KEY and a
\* genai package that has configure it returns the pending placeholder
\* (status awaiting_sdk_update, a diagnostic, no url, no data, the composed
\* video prompt); without the credential, or when genai.configure raises,
\* it returns None.
C12_PlaceholderOrNone ==
  /\ video_result.kind # "raised"
  /\ video_pc = "done" =>
       IF Truthy(google_api_key) /\ genai = "google.generativeai"
       THEN PlaceholderReturned
       ELSE VideoFailed

\* the credential is set, the package is the one with configure
C12_Witness ==
  /\ video_pc = "done"
  /\ Truthy(google_api_key)
  /\ genai = "google.generativeai"
  /\ video_duration = 5
  /\ video_args.mood_text = Str("calm morning by the sea")
  /\ PlaceholderReturned

\* the polling function returned None
PollFailed ==
  /\ poll_result.kind = "returned"
  /\ DOMAIN poll_result.value = DOMAIN Null

\* at most 36 status checks, no exception, and a run in which no video was
\* ever ready ends with None once the timeout has passed
PollBounded ==
  /\ poll_checks <= 36
  /\ poll_result.kind # "raised"
  /\ poll_pc = "done" =>
       \/ poll_operation.done /\ poll_operation.uri # ""
       \/ PollFailed /\ poll_elapsed >= PollTimeout

\* C13: with the clock advancing by at least the 10-second sleep on every
\* turn, either polling loop makes at most 36 status checks and ends; when
\* the operation never completes, or every refresh raises, it returns None
\* after the timeout and does not raise.
C13_PollTerminates == []PollBounded /\ <>(poll_pc = "done")

\* 36 status checks, 36 refreshes, then the timeout
C13_Witness ==
  /\ poll_pc = "done"
  /\ poll_fn = "poll_video_generation_new_api"
  /\ poll_checks = 36
  /\ poll_refreshes = 36
  /\ poll_elapsed = PollTimeout
  /\ PollFailed

-----------------------------------------------------------------------------
(* Properties of the query batch and its quotas *)

\* the share of query i of the planned batch, as numerator and denominator
ShareNumerator(i) == plan_queries[i].weight * plan_args.limit
ShareDenominator == total_weight(plan_queries)

\* the largest integer not above n / d
Floor(n, d) == CHOOSE k \in 0..n : k * d <= n /\ n < (k + 1) * d

\* C14 as stated: the count requested for a query is its share of the limit
\* rounded to the nearest integer, and at least 1.
C14_QuotaRounded ==
  plan_pc = "done" =>
    \A i \in 1..Len(plan_queries) :
      plan_quotas[i] = Max(1, round_half_even(ShareNumerator(i), ShareDenominator))

\* C14: the count requested for a query is its share of the limit truncated
\* to an integer (the double-precision product cut toward zero, which for a
\* whole share can be one below it), and at least 1.
C14_QuotaTruncated ==
  plan_pc = "done" =>
    /\ Len(plan_quotas) = Len(plan_queries)
    /\ \A i \in 1..Len(plan_queries) :
         plan_quotas[i] =
           Max(1, Floor(ShareNumerator(i), ShareDenominator)
                  - (IF <<plan_queries[i].weight, ShareDenominator, plan_args.limit>>
                          \in DoubleBelow THEN 1 ELSE 0))

\* two genres, a keyword and an energy level, limit 15: the keyword-and-genre
\* query has the share 0.3 / 1.5 * 15, a whole 3 that the double misses, and
\* 2 is requested; each genre query has the share 4 and requests 4
C14_Witness ==
  /\ plan_pc = "done"
  /\ plan_args.limit = AppLimit
  /\ plan_args.genres = <<"ambient", "folk">>
  /\ plan_args.search_keywords = List(<<"victory">>)
  /\ plan_args.energy_level = Str("high")
  /\ Len(plan_queries) = 6
  /\ plan_queries[3].weight = 3
  /\ plan_quotas = <<4, 4, 2, 2, 1, 1>>

RECURSIVE Sum(_)
Sum(numbers) == IF Len(numbers) = 0 THEN 0 ELSE numbers[1] + Sum(Tail(numbers))

Distance(a, b) == IF a < b THEN b - a ELSE a - b

\* every share of the planned batch, before the floor of 1, is at least 1
SharesAtLeastOne ==
  \A i \in 1..Len(plan_queries) :
    plan_queries[i].weight * plan_args.limit >= total_weight(plan_queries)

\* C15: genres ambient and folk with limit 15 and nothing else give two
\* queries of weight 0.4 with equal quotas whose sum is within 1 of 15; and
\* whenever every share is at least 1 the quotas sum to within the number of
\* queries of the limit.
C15_QuotasSumNearLimit ==
  plan_pc = "done" =>
    /\ (/\ plan_args.genres = <<"ambient", "folk">>
        /\ plan_args.limit = 15
        /\ ~Truthy(plan_args.search_keywords)
        /\ ~Truthy(plan_args.energy_level)) =>
         /\ Len(plan_queries) = 2
         /\ plan_queries[1].weight = 4 /\ plan_queries[2].weight = 4
         /\ plan_quotas[1] = plan_quotas[2]
         /\ Distance(Sum(plan_quotas), 15) <= 1
    /\ (Len(plan_queries) > 0 /\ SharesAtLeastOne) =>
         Distance(Sum(plan_quotas), plan_args.limit) <= Len(plan_queries)

\* the two genre queries: 7 and 7
C15_Witness ==
  /\ plan_pc = "done"
  /\ plan_args.genres = <<"ambient", "folk">>
  /\ plan_args.limit = 15
  /\ plan_args.search_keywords = Null
  /\ plan_args.energy_level = Null
  /\ plan_quotas = <<7, 7>>

\* the keywords the batch uses, and whether the energy level has a table
PlanKeywordsUsed ==
  LET keywords == IF Truthy(plan_args.search_keywords)
                  THEN plan_args.search_keywords.l ELSE <<>>
  IN [k \in 1..Min(3, Len(keywords)) |-> keywords[k]]
EnergyRecognized ==
  /\ plan_args.energy_level # Null
  /\ plan_args.energy_level.s \in {"low", "medium", "high"}
FirstGenreOrEmpty ==
  IF Len(plan_args.genres) > 0 THEN plan_args.genres[1] ELSE ""

\* C18: the batch is one "genre:<g>" query of weight 0.4 per genre in order,
\* then for each of the first 3 keywords a "<keyword> genre:<first genre>"
\* query of weight 0.3 (only when there is a genre) followed by the keyword
\* alone with weight 0.2, then for a recognized energy level one query of
\* weight 0.1 for each of the first 2 terms of its table, "<term> <first
\* genre or empty>"; nothing else, so its length is
\* |genres| + min(3,|keywords|) * (2 if genres else 1) + (2 if recognized else 0).
C18_BatchExactlyAsListed ==
  plan_pc = "done" =>
    LET g == plan_args.genres
        per == IF Len(g) > 0 THEN 2 ELSE 1
        after_keywords == Len(g) + Len(PlanKeywordsUsed) * per
        n == after_keywords + (IF EnergyRecognized THEN 2 ELSE 0)
    IN /\ Len(plan_queries) = n
       /\ \A i \in 1..Len(g) :
            /\ plan_queries[i].query = "genre:" \o g[i]
            /\ plan_queries[i].weight = 4
       /\ \A k \in 1..Len(PlanKeywordsUsed) :
            /\ Len(g) > 0 =>
                 /\ plan_queries[Len(g) + 2 * k - 1].query
                      = PlanKeywordsUsed[k] \o " genre:" \o g[1]
                 /\ plan_queries[Len(g) + 2 * k - 1].weight = 3
            /\ plan_queries[Len(g) + per * k].query = PlanKeywordsUsed[k]
            /\ plan_queries[Len(g) + per * k].weight = 2
       /\ EnergyRecognized =>
            \A t \in 1..2 :
              /\ plan_queries[after_keywords + t].query
                   = energy_terms[plan_args.energy_level.s][t] \o " " \o FirstGenreOrEmpty
              /\ plan_queries[after_keywords + t].weight = 1

\* four keywords of which three are used, genres, and a recognized level
C18_Witness ==
  /\ plan_pc = "done"
  /\ Len(plan_args.genres) = 2
  /\ plan_args.search_keywords # Null
  /\ Len(plan_args.search_keywords.l) = 4
  /\ plan_args.energy_level = Str("high")
  /\ Len(plan_queries) = 10
  /\ plan_queries[10].query = "powerful ambient"

\* without genres, the energy queries end in a space
C18_WitnessNoGenres ==
  /\ plan_pc = "done"
  /\ plan_args.genres = <<>>
  /\ plan_args.energy_level = Str("low")
  /\ plan_queries[Len(plan_queries)].query = "ambient "

\* the search requests sent so far are the first queries of the batch, one
\* request per query, in the order of the batch
RequestsArePrefixOfBatch ==
  /\ Len(requests) <= Len(search_queries)
  /\ \A i \in 1..Len(requests) :
       /\ requests[i].api = "search"
       /\ requests[i].q = search_queries[i].query

\* the tracks of the answers that did not raise, in the pool
SuccessfulUris ==
  UNION {{requests[i].items[j].uri :
            j \in {k \in 1..Len(requests[i].items) :
                     \A m \in 1..k : ~item_raises(requests[i].items[m])}} :
         i \in {r \in 1..Len(requests) : requests[r].ok}}

\* C16: every query of the batch is sent exactly once, in the order of the
\* batch, whether or not earlier queries failed; a failed query adds nothing
\* more, the queries after it are still sent, search_tracks does not raise
\* and the tracks of the queries that succeeded are in the pool the result is
\* drawn from (all of them returned when the limit allows).
C16_FailedQuerySkipped ==
  (client_op.name = "search_tracks" /\ sp # None) =>
    /\ RequestsArePrefixOfBatch
    /\ client_pc = "line95" => Len(requests) = query_index - 1
    /\ client_pc = "idle" =>
         /\ Len(requests) = Len(search_queries)
         /\ SearchReturned
         /\ \A i \in 1..Len(client_result.value) :
              client_result.value[i].uri \in SuccessfulUris
         /\ Cardinality(SuccessfulUris) <= client_op.limit =>
              SuccessfulUris = {client_result.value[i].uri :
                                  i \in 1..Len(client_result.value)}

\* the first query fails, the second is still sent and its track returned
C16_Witness ==
  /\ SearchReturned
  /\ sp # None
  /\ Len(requests) = 2
  /\ ~requests[1].ok
  /\ requests[2].ok
  /\ requests[2].items = <<TrackB>>
  /\ Len(client_result.value) = 1
  /\ client_result.value[1].uri = TrackB.uri

\* the requests of the create_playlist under way or ended
CreateRequests == {i \in 1..Len(requests) : requests[i].api = "user_playlist_create"}
AddRequests == {i \in 1..Len(requests) : requests[i].api = "playlist_add_items"}

\* create_playlist was called on an authenticated client
PlaylistCalled ==
  client_op.name = "create_playlist" /\ ~create_not_authenticated

\* the parts of the description that are present, in order
PresentParts ==
  <<"Generated by MoodCanvas " \o ArtistPalette>>
  \o (IF client_op.mood_prompt \in {Null, Str("")} THEN <<>>
      ELSE <<"Mood: \"" \o client_op.mood_prompt.s \o "\"">>)
  \o (IF client_op.emotional_tags \in {Null, List(<<>>)} THEN <<>>
      ELSE <<"Emotions: " \o join(", ", client_op.emotional_tags.l)>>)
  \o (IF client_op.genres \in {Null, List(<<>>)} THEN <<>>
      ELSE <<"Genres: " \o join(", ", client_op.genres.l)>>)

RECURSIVE JoinWithBar(_)
JoinWithBar(parts) ==
  IF Len(parts) = 1 THEN parts[1] ELSE parts[1] \o " | " \o JoinWithBar(Tail(parts))

\* C19: create_playlist sends its writes in a fixed order: first one
\* playlist-create request, public, for the authenticated user, described by
\* the present context fields joined with " | "; and only once it has
\* succeeded at most one add-items request, with all the given uris in the
\* given order, for the id the create request returned. A call that returns
\* the playlist has sent exactly the create request and, when there are
\* tracks, the add-items request.
C19_CreateThenAddItems ==
  PlaylistCalled =>
    /\ Cardinality(CreateRequests) <= 1
    /\ Cardinality(AddRequests) <= 1
    /\ \A i \in CreateRequests :
         /\ i = 1
         /\ requests[i].public = TRUE
         /\ requests[i].user = user_id.s
         /\ requests[i].description = JoinWithBar(PresentParts)
    /\ \A j \in AddRequests :
         /\ j = 2
         /\ requests[1].api = "user_playlist_create"
         /\ requests[1].ok
         /\ requests[j].playlist_id = playlist.id
         /\ requests[j].items = client_op.tracks
    /\ PlaylistResultReturned =>
         /\ Cardinality(CreateRequests) = 1
         /\ requests[1].ok
         /\ client_result.value.id = playlist.id
         /\ Len(client_op.tracks) > 0 =>
              (Cardinality(AddRequests) = 1 /\ requests[2].ok)
         /\ Len(client_op.tracks) = 0 => AddRequests = {}

\* a playlist returned after the create request and then the add-items request
C19_Witness ==
  /\ PlaylistCalled
  /\ PlaylistResultReturned
  /\ Len(requests) = 2
  /\ requests[1].api = "user_playlist_create"
  /\ requests[2].api = "playlist_add_items"
  /\ Len(requests[2].items) = 2
  /\ Len(PresentParts) = 4

-----------------------------------------------------------------------------
(* Properties of the validation in extract_mood_components *)

\* the completion answered with a text and extract_mood_components has run
ResponseExtracted ==
  /\ completion_calls >= 1
  /\ ~completion.raises
  /\ completion.content.t = "str"
  /\ analyze_pc \in {"line51", "done"}

\* what the answer parses to
ParsedResponse == json_loads(clean_response(strip(completion.content.s)))
ParsedObject == ParsedResponse.ok /\ ParsedResponse.isdict

Missing(field) == field \notin DOMAIN ParsedResponse.d
NonEmptyList(field) ==
  /\ ~Missing(field)
  /\ ParsedResponse.d[field].t = "list"
  /\ Len(ParsedResponse.d[field].l) > 0
NonBlankString(field) ==
  /\ ~Missing(field)
  /\ ParsedResponse.d[field].t = "str"
  /\ ~IsBlank(ParsedResponse.d[field].s)

\* the three required fields are present, of the right type and not empty
RequiredValid ==
  /\ ParsedObject
  /\ NonEmptyList("emotional_tags")
  /\ NonEmptyList("genres")
  /\ NonBlankString("playlist_name")
RequiredInvalid == ParsedObject /\ ~RequiredValid

\* what the normalization of lines 133-145 needs beyond the validation: the
\* entries it trims and the optional fields it lower-cases or trims are
\* strings, the optional fields it slices are lists or strings
StringEntries(field) ==
  \A i \in 1..Min(3, Len(ParsedResponse.d[field].l)) :
    ParsedResponse.d[field].l[i].t = "str"
OptionalIs(field, types) ==
  Missing(field) \/ ParsedResponse.d[field].t \in types
Normalizable ==
  /\ StringEntries("emotional_tags")
  /\ StringEntries("genres")
  /\ \A field \in {"energy_level", "tempo_feeling", "movement_quality"} :
       OptionalIs(field, {"str"})
  /\ \A field \in {"visual_imagery", "color_palette", "search_keywords"} :
       OptionalIs(field, {"str", "list"})

\* the response was rejected with the given exception and gave no profile:
\* analyze_mood is left with the fallback
RejectedWith(exceptions) ==
  /\ caught \in exceptions
  /\ analyze_pc = "done" => analyze_result = Returned(BucketTriple(mood_text))

\* the response was accepted: nothing was caught and the profile returned is
\* the normalized response
Accepted ==
  /\ caught = ""
  /\ analyze_pc = "done"
  /\ analyze_result.kind = "returned"
  /\ "energy_level" \in DOMAIN analyze_result.value

\* C17 as stated: a response with a required field missing, of the wrong type
\* or empty is rejected with ValueError, and every response whose three
\* required fields are present, of the right type and non-empty is accepted.
C17_ValidRequiredAccepted ==
  ResponseExtracted =>
    /\ RequiredInvalid => RejectedWith({"ValueError"})
    /\ RequiredValid => Accepted

\* C17: a response object with a required field missing, of the wrong type
\* or empty is rejected with ValueError and gives no profile; a response
\* whose three required fields are valid is accepted exactly when it is also
\* normalizable (string entries, well-typed optional fields), and is
\* otherwise rejected with AttributeError or TypeError; a response that is
\* JSON but not an object is rejected with ValueError or TypeError.
C17_ValidAndNormalizableAccepted ==
  ResponseExtracted =>
    /\ RequiredInvalid => RejectedWith({"ValueError"})
    /\ (RequiredValid /\ Normalizable) => Accepted
    /\ (RequiredValid /\ ~Normalizable) => RejectedWith({"AttributeError", "TypeError"})
    /\ (ParsedResponse.ok /\ ~ParsedResponse.isdict) =>
         RejectedWith({"ValueError", "TypeError"})

\* valid required fields and a null energy_level: rejected, fallback returned
C17_Witness ==
  /\ analyze_pc = "done"
  /\ completion_calls = 1
  /\ completion.content = Str(DocEnergyNullText)
  /\ RequiredValid
  /\ caught = "AttributeError"
  /\ analyze_result = Returned(BucketTriple(mood_text))

\* an empty list of tags: rejected with ValueError
C17_WitnessRejected ==
  /\ analyze_pc = "done"
  /\ completion.content = Str(DocEmptyTagsText)
  /\ RequiredInvalid
  /\ caught = "ValueError"

-----------------------------------------------------------------------------
(* Properties of the request pipeline, create_mood_canvas *)

\* analyze_mood, called by the pipeline, has raised one of its two errors
AnalyzeRejected ==
  /\ called("analyze_mood")
  /\ analyze_pc = "done"
  /\ analyze_result.kind = "raised"
  /\ analyze_result.msg \in {"Mood text cannot be empty",
                             "OpenAI API key not found in environment variables"}

\* C20: the empty-text error and the missing-credential error of analyze_mood
\* are fatal to the request: once analyze_mood has raised either, no fallback
\* profile is substituted and no catalog search, playlist creation or image
\* generation follows.
C20_AnalyzeErrorsFatal ==
  AnalyzeRejected =>
    /\ app_mood_data = NoMoodData
    /\ ~called("create_fallback_mood_analysis")
    /\ ~called("search_tracks")
    /\ ~called("create_playlist")
    /\ ~called("generate_mood_image")

\* what the pipeline does: the error is caught, the fallback profile stands
\* in for the analysis and the request goes on to the catalog
C20_FallbackAfterRejection ==
  (AnalyzeRejected /\ app_pc \notin {"line97"}) =>
    /\ app_mood_data.source = "create_fallback_mood_analysis"
    /\ app_mood_data.value = BucketTriple(mood_text)

\* no credential for the language model, and an image generated all the same
C20_MissingKeyCarriedThrough ==
  /\ AnalyzeRejected
  /\ mood_text = "calm"
  /\ openai_api_key = Null
  /\ called("generate_mood_image")
  /\ app_pc = "done"

\* a whitespace-only text passes the guard of main and reaches the catalog
C20_BlankTextCarriedThrough ==
  /\ AnalyzeRejected
  /\ mood_text = "   "
  /\ called("search_tracks")

\* the request has ended with a profile in hand
ProfileProduced == app_pc = "done" /\ app_mood_data # NoMoodData

\* C21: once a profile has been produced, the media branch and the playlist
\* branch are independent: the image is attempted for every request with a
\* profile, whether or not tracks were found or a playlist was created, and
\* the playlist branch runs whatever the image outcome.
C21_BranchesIndependent ==
  ProfileProduced =>
    /\ called("generate_mood_image")
    /\ called("search_tracks")

\* what the pipeline does: the image is generated only after create_playlist
\* returned a playlist, so only after tracks were found
C21_ImageOnlyAfterPlaylist ==
  called("generate_mood_image") =>
    /\ playlist_result # Null
    /\ Len(track_uris) > 0
    /\ called("create_playlist")

\* a profile, no track found, and the request ends without an image
C21_NoTracksNoImage ==
  /\ ProfileProduced
  /\ called("search_tracks")
  /\ track_uris = <<>>
  /\ ~called("generate_mood_image")

\* a profile, tracks, no playlist, and the request ends without an image
C21_NoPlaylistNoImage ==
  /\ ProfileProduced
  /\ called("create_playlist")
  /\ playlist_result = Null
  /\ ~called("generate_mood_image")

-----------------------------------------------------------------------------
(* Properties of the normalized profile *)

\* the response was accepted, and the profile and the parsed fields at hand
ProfileFromResponse == ResponseExtracted /\ Accepted

\* the first n entries of a field of the response, as they were sent
Sent(field, n) ==
  LET entries == ParsedResponse.d[field].l
  IN [i \in 1..Min(n, Len(entries)) |-> entries[i]]

\* the first n entries trimmed and lower-cased
TrimmedLower(field, n) ==
  [i \in 1..Len(Sent(field, n)) |-> Str(lower(strip(Sent(field, n)[i].s)))]

\* a list field of the profile is the first n entries sent, an absent one empty
CappedTo(field, n) ==
  analyze_result.value[field].l = (IF Missing(field) THEN <<>> ELSE Sent(field, n))

\* C22: in the profile of an accepted response emotional_tags and genres are
\* the first 3 entries sent, each trimmed and lower-cased, in order;
\* playlist_name is the first 50 characters of the trimmed name;
\* visual_imagery holds the first 5 entries sent, color_palette the first 3,
\* search_keywords the first 5, movement_quality the first 100 characters of
\* its trimmed value; an absent energy_level is "medium" and an absent
\* tempo_feeling "moderate".
C22_ProfileNormalized ==
  ProfileFromResponse =>
    LET profile == analyze_result.value
        trimmed_name == strip(ParsedResponse.d["playlist_name"].s)
        trimmed_movement == IF Missing("movement_quality") THEN ""
                            ELSE strip(ParsedResponse.d["movement_quality"].s)
    IN /\ profile["emotional_tags"].l = TrimmedLower("emotional_tags", 3)
       /\ profile["genres"].l = TrimmedLower("genres", 3)
       /\ profile["playlist_name"].s = SubSeq(trimmed_name, 1, Min(50, Len(trimmed_name)))
       /\ CappedTo("visual_imagery", 5)
       /\ CappedTo("color_palette", 3)
       /\ CappedTo("search_keywords", 5)
       /\ profile["movement_quality"].s
            = SubSeq(trimmed_movement, 1, Min(100, Len(trimmed_movement)))
       /\ Missing("energy_level") => profile["energy_level"] = Str("medium")
       /\ Missing("tempo_feeling") => profile["tempo_feeling"] = Str("moderate")

\* six images, four colors and a movement of more than 100 characters, no
\* energy and no tempo: five, three, 100 characters and the two defaults
C22_Witness ==
  /\ ProfileFromResponse
  /\ completion.content = Str(DocLavishText)
  /\ Len(analyze_result.value["visual_imagery"].l) = 5
  /\ Len(analyze_result.value["color_palette"].l) = 3
  /\ Len(analyze_result.value["movement_quality"].s) = 100
  /\ analyze_result.value["emotional_tags"].l = <<Str("wistful")>>
  /\ analyze_result.value["energy_level"] = Str("medium")
  /\ analyze_result.value["tempo_feeling"] = Str("moderate")

\* four tags and a name of more than 50 characters: three tags in order
C22_WitnessTags ==
  /\ ProfileFromResponse
  /\ completion.content = Str(DocSprintText)
  /\ analyze_result.value["emotional_tags"].l
       = <<Str("graceful"), Str("triumphant"), Str("flowing")>>
  /\ analyze_result.value["genres"].l = <<Str("electronic"), Str("pop"), Str("rock")>>
  /\ analyze_result.value["playlist_name"].s
       = "Graceful Victory Sprint Across The Endless Golden "
  /\ Len(analyze_result.value["search_keywords"].l) = 5

\* C23: every profile built from a response has energy_level among low,
\* medium, high and tempo_feeling among slow, moderate, fast, explosive; a
\* response with any other value gives no profile with that value.
C23_EnergyAndTempoEnumerated ==
  ProfileFromResponse =>
    /\ analyze_result.value["energy_level"].s \in {"low", "medium", "high"}
    /\ analyze_result.value["tempo_feeling"].s \in {"slow", "moderate", "fast", "explosive"}

\* what the code does to the two fields: lower-cased, or the default
C23_EnergyAndTempoLowered ==
  ProfileFromResponse =>
    /\ analyze_result.value["energy_level"].s
         = (IF Missing("energy_level") THEN "medium"
            ELSE lower(ParsedResponse.d["energy_level"].s))
    /\ analyze_result.value["tempo_feeling"].s
         = (IF Missing("tempo_feeling") THEN "moderate"
            ELSE lower(ParsedResponse.d["tempo_feeling"].s))

\* a response with energy "Extreme": a profile with energy "extreme"
C23_ExtremeAccepted ==
  /\ ProfileFromResponse
  /\ completion.content = Str(DocExtremeText)
  /\ analyze_result.value["energy_level"] = Str("extreme")
  /\ analyze_result.value["tempo_feeling"] = Str("low/medium/high")

-----------------------------------------------------------------------------
(* Properties of the handling of code fences *)

\* the payloads sent fenced, and the ways of fencing one
FencedPayloads == {DocDawnText, DocMinimalText}
JsonFenced(payload) ==
  {Fence \o "json\n" \o payload \o "\n" \o Fence, Fence \o "json\n" \o payload}
BareFenced(payload) ==
  {Fence \o "\n" \o payload \o "\n" \o Fence, Fence \o "\n" \o payload}

\* analyze_mood ended on an answer that is one of the given texts
AnsweredWith(texts) ==
  /\ analyze_pc = "done"
  /\ completion_calls = 1
  /\ ~completion.raises
  /\ completion.content.t = "str"
  /\ completion.content.s \in texts

\* C24: a valid payload wrapped in a code fence, opened with the json tag or
\* bare, closed or not, gives the same profile as the payload alone.
C24_FenceInsensitive ==
  \A payload \in FencedPayloads :
    AnsweredWith(JsonFenced(payload) \cup BareFenced(payload)) =>
      analyze_result = extract_mood_components(payload)

\* what the code does: the fence opened with the json tag is removed, closed
\* or not; behind a bare fence the payload is not JSON any more and the
\* fallback profile is returned
C24_OnlyJsonFenceStripped ==
  \A payload \in FencedPayloads :
    /\ AnsweredWith(JsonFenced(payload)) =>
         analyze_result = extract_mood_components(payload)
    /\ AnsweredWith(BareFenced(payload)) =>
         /\ caught = "ValueError"
         /\ analyze_result = Returned(BucketTriple(mood_text))

\* a bare fence around a valid payload, and the canned profile returned
C24_BareFenceFallsBack ==
  /\ AnsweredWith(BareFenced(DocMinimalText))
  /\ mood_text = "so sad and blue"
  /\ analyze_result.value["playlist_name"] = Str("Reflection Time")

\* the json fence without its closing, and the profile of the payload
C24_UnclosedJsonFence ==
  /\ AnsweredWith({Fence \o "json\n" \o DocMinimalText})
  /\ analyze_result.value["playlist_name"] = Str("Sunny")

-----------------------------------------------------------------------------
(* Properties of the clauses of the two prompts *)

\* the arguments as the clauses see them
GivenImagery ==
  IF prompt_args.visual_imagery = Null THEN <<>> ELSE prompt_args.visual_imagery.l
GivenPalette ==
  IF prompt_args.color_palette = Null THEN <<>> ELSE prompt_args.color_palette.l
MoodTextShorterThan(n) ==
  /\ prompt_args.mood_text \notin {Null, Str("")}
  /\ Len(prompt_args.mood_text.s) < n

\* the first n of some items, separated by commas
RECURSIVE Listed(_, _)
Listed(items, n) ==
  IF n = 0 \/ Len(items) = 0 THEN ""
  ELSE IF n = 1 \/ Len(items) = 1 THEN items[1]
  ELSE items[1] \o ", " \o Listed(Tail(items), n - 1)

\* the prompt begins with the clause (as much of it as the limit leaves)
BeginsWith(prompt, clause, limit) ==
  LET n == Min(Len(clause), limit)
  IN Len(prompt) >= n /\ SubSeq(prompt, 1, n) = SubSeq(clause, 1, n)

\* the core clause by strict preference: imagery, then a short mood text,
\* then the tags
PreferredImageCore ==
  IF Len(GivenImagery) > 0
  THEN IF MoodTextShorterThan(80)
       THEN "Dynamic artwork showing " \o Listed(GivenImagery, 3)
            \o ", inspired by '" \o prompt_args.mood_text.s \o "'"
       ELSE "Dynamic artwork featuring " \o Listed(GivenImagery, 3)
  ELSE IF MoodTextShorterThan(80)
  THEN "Abstract visual representation of '" \o prompt_args.mood_text.s \o "'"
  ELSE "Abstract artwork expressing " \o Listed(prompt_args.emotional_tags, 3)
       \o " emotions"
PreferredVideoCore ==
  IF Len(GivenImagery) > 0
  THEN IF MoodTextShorterThan(60)
       THEN "Cinematic video showing " \o Listed(GivenImagery, 2)
            \o ", embodying the feeling of '" \o prompt_args.mood_text.s \o "'"
       ELSE "Cinematic video featuring " \o Listed(GivenImagery, 2)
  ELSE IF MoodTextShorterThan(60)
  THEN "Abstract visual representation of '" \o prompt_args.mood_text.s
       \o "' in motion"
  ELSE "Flowing cinematic video expressing " \o Listed(prompt_args.emotional_tags, 2)
       \o " emotions"

\* C25: in both prompts the core clause is chosen by strict preference:
\* with imagery it names the leading items (3 for the image, 2 for the
\* video) and quotes the mood text only when it is present and shorter than
\* 80 / 60 characters; without imagery a short mood text is quoted alone;
\* otherwise the top tags are named.  Imagery without a mood text still
\* gives the imagery clause in the video prompt.
C25_CoreByStrictPreference ==
  /\ image_prompt # Null => BeginsWith(image_prompt.s, PreferredImageCore, ImageLimit)
  /\ video_prompt # Null => BeginsWith(video_prompt.s, PreferredVideoCore, VideoLimit)

\* what the code does: the image prompt follows the preference; the video
\* prompt names the imagery only when there is a mood text too, and without
\* one it names the tags
C25_VideoImageryNeedsMoodText ==
  /\ image_prompt # Null => BeginsWith(image_prompt.s, PreferredImageCore, ImageLimit)
  /\ video_prompt # Null =>
       IF Len(GivenImagery) > 0 /\ prompt_args.mood_text \in {Null, Str("")}
       THEN BeginsWith(video_prompt.s,
                       "Flowing cinematic video expressing "
                       \o Listed(prompt_args.emotional_tags, 2) \o " emotions",
                       VideoLimit)
       ELSE BeginsWith(video_prompt.s, PreferredVideoCore, VideoLimit)

\* imagery and no mood text: the image names the imagery, the video the tags
C25_ImageryIgnoredByVideo ==
  /\ prompt_args.visual_imagery = List(<<"mist", "dawn light", "floating", "open sea">>)
  /\ prompt_args.mood_text = Null
  /\ prompt_args.emotional_tags = <<"calm", "peaceful">>
  /\ image_prompt # Null
  /\ video_prompt # Null
  /\ BeginsWith(image_prompt.s, "Dynamic artwork featuring mist, dawn light, floating. ",
                ImageLimit)
  /\ BeginsWith(video_prompt.s, "Flowing cinematic video expressing calm, peaceful emotions. ",
                VideoLimit)

\* the prompt was not cut, so that all its clauses are there
ImageWhole == image_prompt # Null /\ Len(image_prompt.s) <= ImageLimit
VideoWhole == video_prompt # Null /\ Len(video_prompt.s) <= VideoLimit

\* a clause of the prompt, between two full stops
HasClause(prompt, clause) == contains(prompt.s, ". " \o clause \o ". ")

\* the entries of an emotion table the prompt carries as clauses
TableClauses(prompt, table) ==
  {key \in DOMAIN table : HasClause(prompt, table[key])}

\* the first of the first n tags that is a key of the table, if any
FirstTagIn(table, n) ==
  LET tags == prompt_args.emotional_tags
      hits == {i \in 1..Min(n, Len(tags)) : tags[i] \in DOMAIN table}
  IN {tags[i] : i \in {h \in hits : \A other \in hits : h <= other}}

\* the color clause is the palette's, or the table's for the first of the
\* first n tags that has one
ColorClause(prompt, table, palette_clause, n) ==
  IF Len(GivenPalette) > 0
  THEN HasClause(prompt, palette_clause) /\ TableClauses(prompt, table) = {}
  ELSE TableClauses(prompt, table) = FirstTagIn(table, n)

ImagePaletteClause == "featuring " \o Listed(GivenPalette, 3) \o " color palette"
VideoPaletteClause ==
  "with " \o Listed(GivenPalette, 3) \o " color scheme and complementary lighting"

\* C26: with a palette the color clause is built from its first 3 entries
\* and the emotion table is not consulted; without one the clause is the
\* table entry of the first tag, at any position among the up to 3 tags,
\* that is a key of the table: exactly one clause, and none only when no tag
\* is in the table.
C26_ColorFromFirstMatchingTag ==
  /\ ImageWhole =>
       ColorClause(image_prompt, image_emotion_colors, ImagePaletteClause, 3)
  /\ VideoWhole =>
       ColorClause(video_prompt, video_emotion_colors, VideoPaletteClause, 3)

\* what the code does: only the first two tags are looked up
C26_ColorFromFirstTwoTags ==
  /\ ImageWhole =>
       ColorClause(image_prompt, image_emotion_colors, ImagePaletteClause, 2)
  /\ VideoWhole =>
       ColorClause(video_prompt, video_emotion_colors, VideoPaletteClause, 2)

\* no palette and "calm" as the third tag: no color clause at all
C26_ThirdTagIgnored ==
  /\ ImageWhole
  /\ VideoWhole
  /\ prompt_args.color_palette = Null
  /\ prompt_args.emotional_tags = <<"wistful", "hopeful", "calm">>
  /\ TableClauses(image_prompt, image_emotion_colors) = {}
  /\ TableClauses(video_prompt, video_emotion_colors) = {}

\* no palette and "graceful" first: its clause and no other
C26_FirstTagWins ==
  /\ ImageWhole
  /\ prompt_args.color_palette = Null
  /\ prompt_args.emotional_tags = <<"graceful", "triumphant", "energetic">>
  /\ TableClauses(image_prompt, image_emotion_colors) = {"graceful"}

\* the duration as the prompt would write it
Seconds(duration) ==
  (CASE duration = 5 -> "5" [] duration = 8 -> "8" [] OTHER -> "?") \o " seconds duration"

\* the placeholder carries a prompt that was not cut
PlaceholderPromptWhole ==
  /\ PlaceholderReturned
  /\ Len(video_result.value.prompt) <= VideoLimit

\* C27: the video prompt states the duration that was requested, 8 only when
\* 8 is requested, and when it is not truncated it forbids text overlays.
C27_PromptStatesDuration ==
  PlaceholderPromptWhole =>
    /\ contains(video_result.value.prompt, Seconds(video_duration))
    /\ contains(video_result.value.prompt, "no text overlays")

\* what the code does: the prompt says 8 seconds whatever was requested,
\* while the metadata of the result carries the requested duration
C27_PromptAlwaysEightSeconds ==
  PlaceholderPromptWhole =>
    /\ contains(video_result.value.prompt, Seconds(8))
    /\ ~contains(video_result.value.prompt, Seconds(5))
    /\ contains(video_result.value.prompt, "no text overlays")
    /\ video_result.value.metadata.duration = video_duration

\* five seconds requested, eight in the prompt
C27_FiveSecondsRequested ==
  /\ PlaceholderPromptWhole
  /\ video_duration = 5
  /\ video_result.value.metadata.duration = 5
  /\ contains(video_result.value.prompt, "8 seconds duration")

-----------------------------------------------------------------------------
(* Properties of the client after a failure *)

\* create_playlist has ended after its add-items request failed
AddItemsFailed ==
  /\ client_op.name = "create_playlist"
  /\ client_pc = "idle"
  /\ Len(requests) >= 2
  /\ requests[1].api = "user_playlist_create" /\ requests[1].ok
  /\ requests[2].api = "playlist_add_items" /\ ~requests[2].ok

\* C28: when the playlist was created and adding the tracks failed,
\* create_playlist sends nothing after the failed request, no delete and no
\* unfollow: the playlist created stays in the catalog without tracks, and
\* the caller gets only the failure outcome, without its id or url.
C28_OrphanedPlaylistLeft ==
  AddItemsFailed =>
    /\ Len(requests) = 2
    /\ playlist.id # ""
    /\ requests[2].playlist_id = playlist.id
    /\ PlaylistCreationFailed
    /\ ~PlaylistResultReturned

\* the playlist pl1 created, the tracks refused, None returned
C28_Witness ==
  /\ AddItemsFailed
  /\ playlist.id = "pl1"
  /\ Len(requests[2].items) = 2
  /\ client_result = Returned(Null)

\* search_tracks was called on a client whose latest authenticate() failed
SearchAfterFailedAuthenticate ==
  /\ last_authenticate = "False"
  /\ client_op.name = "search_tracks"

\* C29: after authenticate() has returned False, and until it returns True,
\* search_tracks raises the not-authenticated exception and sends no search
\* request, as on a client that never called authenticate().
C29_FailedAuthenticateLeavesUnauthenticated ==
  SearchAfterFailedAuthenticate =>
    /\ client_result =
         Raised("Exception", "Not authenticated. Call authenticate() first.")
    /\ requests = <<>>

\* what the code does: authenticate() stores the session before it asks for
\* the user, so after a failure self.sp is set, the test of line 41 passes
\* and the queries are sent
C29_SessionKeptAfterFailure ==
  SearchAfterFailedAuthenticate =>
    /\ sp # None
    /\ client_result.kind # "raised"
    /\ client_pc = "idle" =>
         (SearchReturned /\ Len(requests) = Len(search_queries))

\* authenticate() failed, no user id, and a search answered with a track
C29_SearchAfterFailure ==
  /\ SearchAfterFailedAuthenticate
  /\ user_id = Null
  /\ SearchReturned
  /\ Len(requests) = 1
  /\ requests[1].api = "search"
  /\ Len(client_result.value) = 1

\* the polling function returned a result, not None
PollReturnedVideo ==
  /\ poll_pc = "done"
  /\ poll_result.kind = "returned"
  /\ ~PollFailed

\* the download of the video failed: another status than 200, or an exception
DownloadFailed ==
  /\ poll_download # NoDownload
  /\ poll_download.raises \/ poll_download.status_code # 200

\* C30: a result returned by the polling function carries the encoded video;
\* when the operation completed and the download of its uri failed, the
\* polling function returns the failed outcome, not a result with a url and
\* no data, and it does not raise.
C30_DownloadFailureIsFailure ==
  /\ poll_result.kind # "raised"
  /\ PollReturnedVideo => poll_result.value.data # Null
  /\ (poll_pc = "done" /\ DownloadFailed) => PollFailed

\* what the code does: the result is returned whatever download_video_data
\* gave, with None as its data when the download failed
C30_ResultWithoutData ==
  /\ poll_result.kind # "raised"
  /\ (poll_pc = "done" /\ DownloadFailed) =>
       /\ PollReturnedVideo
       /\ poll_result.value.url = poll_operation.uri
       /\ poll_result.value.data = Null
  /\ (PollReturnedVideo /\ ~DownloadFailed) => poll_result.value.data # Null

\* the video was ready, its download answered 404, and a url came back alone
C30_UrlWithoutData ==
  /\ PollReturnedVideo
  /\ ~poll_download.raises
  /\ poll_download.status_code = 404
  /\ poll_result.value.url = VideoUrl
  /\ poll_result.value.data = Null

====
